---- MODULE Spec2Model ----
(***************************************************************************)
(* Routing core of eth-swap-router: the two shortest-path solvers          *)
(* (classicDijkstra, psbDijkstra), the edge-cost code they share and the   *)
(* AMM math it calls; findBestRoute, the graph builders, validateRoute,    *)
(* the route estimate endpoint and the transaction monitor.                *)
(*                                                                         *)
(* Numbers.  The code computes in IEEE doubles; the model computes in      *)
(* integers:                                                               *)
(*   - amounts are integers in units of 1/AmtScale token, a product or a   *)
(*     quotient is rounded down;                                           *)
(*   - a rate is a pair num/den;                                           *)
(*   - a weight is an integer number of weight units, LogScale units being *)
(*     ln 2.  Math.log is the piecewise-linear fixed-point logarithm       *)
(*     Log2FP: exact on the powers of two, monotone, with the sign of the  *)
(*     real logarithm;                                                     *)
(*   - an edge's gas and timeDelay fields hold the terms gas/1e9 and       *)
(*     timeDelay*0.00001 already expressed in weight units;                *)
(*   - Infinity is Inf (absorbing for +), undefined and NaN are two        *)
(*     integers below every reachable number.                              *)
(***************************************************************************)
EXTENDS Integers, Sequences, FiniteSets, TLC

VARIABLES graph, n, source, target, inputAmount, maxHops,
          cl, cpc, cres, ps, ppc, pres,
          fb, build, val, call, est, mon

vars == <<graph, n, source, target, inputAmount, maxHops,
          cl, cpc, cres, ps, ppc, pres,
          fb, build, val, call, est, mon>>

inputs == <<graph, n, source, target, inputAmount, maxHops>>

\* the state of the other components: findBestRoute, the graph builders,
\* validateRoute, a call of a function of the AMM and edge-cost math, the
\* route estimate endpoint and the transaction monitor
others == <<fb, build, val, call, est, mon>>

\* a component that is not running
Idle == [pc |-> "idle"]

----------------------------------------------------------------------------
(* Numbers *)

Inf == 1000000000
Undefined == 0 - Inf - 1
NaN == 0 - Inf - 2
NoPrev == 0
LogScale == 1000
AmtScale == 1000
FeeDen == 1000
SentinelWeight == 1000000

Min(a, b) == IF a <= b THEN a ELSE b
Max(a, b) == IF a >= b THEN a ELSE b

Plus(a, b) == IF a = Inf \/ b = Inf THEN Inf ELSE a + b

Range(s) == {s[i] : i \in 1..Len(s)}

RECURSIVE Pow2(_)
Pow2(e) == IF e <= 0 THEN 1 ELSE 2 * Pow2(e - 1)

RECURSIVE Log2FP(_, _)
Log2FP(num, den) ==
  IF num >= 2 * den THEN LogScale + Log2FP(num, 2 * den)
  ELSE IF num < den THEN Log2FP(2 * num, den) - LogScale
  ELSE (LogScale * (num - den)) \div den

\* -Math.log(num/den); -Math.log(0) is Infinity
NegLog(num, den) == IF num <= 0 THEN Inf ELSE 0 - Log2FP(num, den)

\* Math.exp(-d) as an amount
ExpNeg(d) ==
  IF d = Undefined THEN NaN
  ELSE IF d >= 20 * LogScale THEN 0
  ELSE LET x == 0 - d
           e == x \div LogScale
           r == x % LogScale
       IN IF e >= 0
            THEN (AmtScale * Pow2(Min(e, 10)) * (LogScale + r)) \div LogScale
            ELSE (AmtScale * (LogScale + r)) \div (LogScale * Pow2(0 - e))

----------------------------------------------------------------------------
(* AMM math.  A result is [ok, outputAmount]; ok = FALSE is a throw.  The   *)
(* effective rate of a result is outputAmount / inputAmount.               *)

Thrown == [ok |-> FALSE, outputAmount |-> 0]

getOutputAmountConstantProduct(amountIn, reserveIn, reserveOut, feePercent) ==
  IF amountIn <= 0 THEN Thrown
  ELSE IF reserveIn <= 0 \/ reserveOut <= 0 THEN Thrown
  ELSE IF 10 * amountIn >= 9 * reserveIn THEN Thrown
  ELSE LET inputAmountWithFee == (amountIn * (FeeDen - feePercent)) \div FeeDen
           numerator == reserveOut * inputAmountWithFee
           denominator == reserveIn + inputAmountWithFee
       IN [ok |-> TRUE, outputAmount |-> numerator \div denominator]

getOutputAmountStableSwap(amountIn, reserveIn, reserveOut, amplificationCoefficient, feePercent) ==
  IF amountIn <= 0 \/ reserveIn <= 0 \/ reserveOut <= 0 THEN Thrown
  ELSE LET inputAmountWithFee == (amountIn * (FeeDen - feePercent)) \div FeeDen
           lo == Min(reserveIn, reserveOut)
           hi == Max(reserveIn, reserveOut)
           \* weight = min(1, A/200) = wN/200; weight * balanceRatio = wN*lo / (200*hi)
           wN == Min(200, amplificationCoefficient)
           cp == getOutputAmountConstantProduct(amountIn, reserveIn, reserveOut, feePercent)
       IN IF ~cp.ok THEN Thrown
          ELSE [ok |-> TRUE,
                outputAmount |-> (inputAmountWithFee * wN * lo
                                  + cp.outputAmount * (200 * hi - wN * lo))
                                 \div (200 * hi)]

----------------------------------------------------------------------------
(* Edges *)

NoPool == [reserveBase |-> 0, reserveQuote |-> 0, feePercent |-> 0, poolType |-> "none"]

HasLiquidity(edge) == edge.liquidity.poolType # "none"

\* edge.rate && edge.rate > 0 : an absent rate is rateN = 0
HasRate(edge) == edge.rateN > 0

\* currentAmount * (edge.rate || 1)
TimesRateOr1(currentAmount, edge) ==
  IF edge.rateN = 0 THEN currentAmount
  ELSE (currentAmount * edge.rateN) \div edge.rateD

\* edge.rate && edge.rate > 0 ? -Math.log(edge.rate) + (edge.gas || 0) / 1e9 : Number.MAX_VALUE / 2
NominalWeight(edge) ==
  IF HasRate(edge) THEN NegLog(edge.rateN, edge.rateD) + edge.gas
  ELSE SentinelWeight

\* edge.bridgeFee || 0.001
BridgeFeeOrDefault(edge) == IF edge.bridgeFee = 0 THEN 1 ELSE edge.bridgeFee

BridgeWeight(edge) ==
  Plus(Plus(NegLog(FeeDen - BridgeFeeOrDefault(edge), FeeDen), edge.timeDelay), edge.gas)

PoolResult(edge, currentAmount) ==
  LET p == edge.liquidity IN
  IF p.poolType = "stable_swap"
    THEN getOutputAmountStableSwap(currentAmount, p.reserveBase, p.reserveQuote, 100, p.feePercent)
  ELSE IF p.poolType = "concentrated_liquidity"
    THEN getOutputAmountConstantProduct(currentAmount,
                                        (p.reserveBase * 3) \div 10,
                                        (p.reserveQuote * 3) \div 10,
                                        p.feePercent)
  ELSE getOutputAmountConstantProduct(currentAmount, p.reserveBase, p.reserveQuote, p.feePercent)

calculateEdgeWeight(edge, currentAmount) ==
  IF edge.kind = "bridge"
    THEN [weight |-> BridgeWeight(edge),
          outputAmount |-> (currentAmount * (FeeDen - BridgeFeeOrDefault(edge))) \div FeeDen]
  ELSE IF HasLiquidity(edge) /\ currentAmount > 0
    THEN LET result == PoolResult(edge, currentAmount) IN
         IF result.ok
           THEN [weight |-> Plus(NegLog(result.outputAmount, currentAmount), edge.gas),
                 outputAmount |-> result.outputAmount]
           ELSE [weight |-> NominalWeight(edge),
                 outputAmount |-> TimesRateOr1(currentAmount, edge)]
  ELSE [weight |-> NominalWeight(edge),
        outputAmount |-> TimesRateOr1(currentAmount, edge)]

\* the weight a step gets at path reconstruction
StepWeight(edge) ==
  IF edge.kind = "bridge" THEN BridgeWeight(edge)
  ELSE IF HasRate(edge) THEN NegLog(edge.rateN, edge.rateD) + edge.gas
  ELSE 0

----------------------------------------------------------------------------
(* The graphs and queries the solvers are run on *)

MaxEdges == 4
MaxHopsBound == 3
NActive == 4
PadWide == 4

Swap(t, rN, rD, g, pool) ==
  [target |-> t, kind |-> "swap", rateN |-> rN, rateD |-> rD, liquidity |-> pool,
   gas |-> g, bridgeFee |-> 0, timeDelay |-> 0]

Bridge(t, fee, delay, g) ==
  [target |-> t, kind |-> "bridge", rateN |-> 0, rateD |-> 1, liquidity |-> NoPool,
   gas |-> g, bridgeFee |-> fee, timeDelay |-> delay]

Pool(x, y, fee, type) ==
  [reserveBase |-> x, reserveQuote |-> y, feePercent |-> fee, poolType |-> type]

\* The edges a graph is drawn from, in the order they are added to the
\* adjacency lists.
Slots ==
  << [from |-> 1, edge |-> Swap(2, 1, 1, 0, NoPool)],
     [from |-> 1, edge |-> Swap(3, 1, 2, 0, NoPool)],
     [from |-> 2, edge |-> Swap(1, 1, 1, 0, NoPool)],
     [from |-> 2, edge |-> Swap(3, 1, 1, 0, NoPool)],
     [from |-> 3, edge |-> Swap(4, 1, 1, 1, Pool(10000, 10000, 3, "constant_product"))],
     [from |-> 3, edge |-> Swap(4, 1, 1, 0, NoPool)],
     [from |-> 2, edge |-> Bridge(4, 0, 2, 1)],
     [from |-> 1, edge |-> Swap(4, 2, 1, 0, NoPool)],
     [from |-> 2, edge |-> Swap(4, 0, 1, 0, NoPool)],
     [from |-> 1, edge |-> Swap(2, 0, 1, 0, Pool(5000, 4000, 1, "stable_swap"))],
     [from |-> 1, edge |-> Swap(3, 1, 4, 0, Pool(3000, 3000, 3, "concentrated_liquidity"))] >>

RECURSIVE EdgesFrom(_, _, _)
EdgesFrom(v, chosen, i) ==
  IF i > Len(Slots) THEN <<>>
  ELSE IF i \in chosen /\ Slots[i].from = v
         THEN <<Slots[i].edge>> \o EdgesFrom(v, chosen, i + 1)
         ELSE EdgesFrom(v, chosen, i + 1)

GraphOf(chosen, size) == [v \in 1..size |-> IF v <= NActive THEN EdgesFrom(v, chosen, 1) ELSE <<>>]

RECURSIVE ReachedBy(_, _)
ReachedBy(chosen, seen) ==
  LET more == seen \cup {Slots[i].edge.target : i \in {j \in chosen : Slots[j].from \in seen}}
  IN IF more = seen THEN seen ELSE ReachedBy(chosen, more)

\* at most MaxEdges edges, each leaving a vertex that vertex 1 reaches
EdgeSets ==
  {c \in SUBSET (1..Len(Slots)) :
     /\ Cardinality(c) <= MaxEdges
     /\ \A i \in c : Slots[i].from \in ReachedBy(c, {1})}

\* a key that is not a vertex of the graph
Ghost == n + 1

Keys == 1..n

\* the keys the solvers' records have after initialisation
Labelled == Keys \cup {source}

\* graph[u] || []
Neighbors(u) == IF u \in Keys THEN graph[u] ELSE <<>>

----------------------------------------------------------------------------
(* classicDijkstra: the MinHeap *)

HeapSwap(heap, i, j) == [heap EXCEPT ![i] = heap[j], ![j] = heap[i]]

RECURSIVE heapifyUp(_, _)
heapifyUp(heap, i) ==
  IF i > 1 /\ heap[i].dist < heap[i \div 2].dist
    THEN heapifyUp(HeapSwap(heap, i, i \div 2), i \div 2)
    ELSE heap

RECURSIVE heapifyDown(_, _)
heapifyDown(heap, i) ==
  LET left == 2 * i
      right == 2 * i + 1
      m1 == IF left <= Len(heap) /\ heap[left].dist < heap[i].dist THEN left ELSE i
      minIndex == IF right <= Len(heap) /\ heap[right].dist < heap[m1].dist THEN right ELSE m1
  IN IF i # minIndex THEN heapifyDown(HeapSwap(heap, i, minIndex), minIndex) ELSE heap

insert(heap, token, d) ==
  heapifyUp(Append(heap, [token |-> token, dist |-> d]), Len(heap) + 1)

\* the heap left by extractMin; its result is heap[1]
AfterExtractMin(heap) ==
  LET last == heap[Len(heap)]
      rest == SubSeq(heap, 1, Len(heap) - 1)
  IN IF Len(rest) > 0 THEN heapifyDown([rest EXCEPT ![1] = last], 1) ELSE rest

\* positions.get(token), 0 when undefined
PositionOf(heap, token) ==
  IF \E i \in 1..Len(heap) : heap[i].token = token
    THEN CHOOSE i \in 1..Len(heap) : heap[i].token = token
    ELSE 0

\* decreaseKey that leaves an entry of the heap as it is
decreaseKeyStale(heap, token, newDist) ==
  IF PositionOf(heap, token) = 0 THEN insert(heap, token, newDist) ELSE heap

decreaseKey(heap, token, newDist) ==
  LET pos == PositionOf(heap, token) IN
  IF pos = 0 THEN insert(heap, token, newDist)
  ELSE IF newDist < heap[pos].dist
         THEN heapifyUp([heap EXCEPT ![pos].dist = newDist], pos)
         ELSE heap

----------------------------------------------------------------------------
(* classicDijkstra *)

\* the records after initialisation (both solvers)
InitDist(src, size) == [v \in (1..size) \cup {src} |-> IF v = src THEN 0 ELSE Inf]
InitPrev(src, size) == [v \in (1..size) \cup {src} |-> NoPrev]
InitHopCount(src, size) == [v \in (1..size) \cup {src} |-> IF v = src THEN 0 ELSE Inf]
InitTradeAmounts(src, size, amt) == [v \in (1..size) \cup {src} |-> IF v = src THEN amt ELSE 0]

NoWalk == [current |-> NoPrev, path |-> <<>>, steps |-> <<>>]

ClassicInit(src, size, amt) ==
  [dist |-> InitDist(src, size),
   prev |-> InitPrev(src, size),
   hopCount |-> InitHopCount(src, size),
   tradeAmounts |-> InitTradeAmounts(src, size, amt),
   visited |-> {},
   pq |-> insert(<<>>, src, 0),
   walk |-> NoWalk]

\* the relaxation step of one edge u -> v, c its weight and output amount
ClassicRelax(st, u, v, currentDist, c) ==
  LET newDist == Plus(currentDist, c.weight)
      newHops == Plus(st.hopCount[u], 1)
  IN IF newDist < st.dist[v] /\ newHops <= maxHops
       THEN [st EXCEPT !.dist[v] = newDist,
                       !.prev[v] = u,
                       !.hopCount[v] = newHops,
                       !.tradeAmounts[v] = c.outputAmount,
                       !.pq = decreaseKey(st.pq, v, newDist)]
       ELSE st

\* the body of  for (const edge of graph[u] || [])
ClassicRelaxEdge(st, u, currentDist, edge) ==
  IF edge.target \in st.visited THEN st
  ELSE ClassicRelax(st, u, edge.target, currentDist,
                    calculateEdgeWeight(edge, st.tradeAmounts[u]))

RECURSIVE ClassicRelaxAll(_, _, _, _, _)
ClassicRelaxAll(st, u, currentDist, edges, i) ==
  IF i > Len(edges) THEN st
  ELSE ClassicRelaxAll(ClassicRelaxEdge(st, u, currentDist, edges[i]), u, currentDist, edges, i + 1)

\* one iteration of the main loop
ClassicLoop ==
  /\ cpc = "loop"
  /\ Len(cl.pq) > 0
  /\ LET cur == cl.pq[1]
         u == cur.token
         popped == [cl EXCEPT !.pq = AfterExtractMin(cl.pq)]
     IN IF u \in cl.visited THEN cl' = popped /\ cpc' = "loop"
        ELSE IF u = target THEN cl' = popped /\ cpc' = "check"
        ELSE IF cl.hopCount[u] >= maxHops THEN cl' = popped /\ cpc' = "loop"
        ELSE /\ cl' = ClassicRelaxAll([popped EXCEPT !.visited = @ \cup {u}],
                                      u, cur.dist, Neighbors(u), 1)
             /\ cpc' = "loop"
  /\ UNCHANGED <<inputs, others, cres, ps, ppc, pres>>

\* the loop ends with the heap empty
ClassicLoopExit ==
  /\ cpc = "loop"
  /\ Len(cl.pq) = 0
  /\ cpc' = "check"
  /\ UNCHANGED <<inputs, others, cl, cres, ps, ppc, pres>>

\* the reachability test left out
UnreachableNever(dist) == FALSE

\* dist[target] === Infinity
Unreachable(dist) == target \in DOMAIN dist /\ dist[target] = Inf

NoRouteError == [kind |-> "error", path |-> <<>>, totalWeight |-> Undefined,
                 estimatedOutput |-> Undefined, steps |-> <<>>]

ClassicCheck ==
  /\ cpc = "check"
  /\ IF Unreachable(cl.dist)
       THEN cpc' = "threw" /\ cres' = NoRouteError /\ cl' = cl
       ELSE cpc' = "walk" /\ cres' = cres
            /\ cl' = [cl EXCEPT !.walk = [current |-> target, path |-> <<>>, steps |-> <<>>]]
  /\ UNCHANGED <<inputs, others, ps, ppc, pres>>

----------------------------------------------------------------------------
(* Path reconstruction, the same code in both solvers *)

\* prev[current] as a truth value
HasPrev(prev, current) == current \in DOMAIN prev /\ prev[current] # NoPrev

\* graph[prevToken].find(e => e.target === current), 0 when there is none
FindEdge(prevToken, current) ==
  LET es == Neighbors(prevToken)
      hits == {i \in 1..Len(es) : es[i].target = current}
  IN IF hits = {} THEN 0 ELSE CHOOSE i \in hits : \A j \in hits : i <= j

\* tradeAmounts[v], undefined for a key the record does not have
AmountAt(tradeAmounts, v) == IF v \in DOMAIN tradeAmounts THEN tradeAmounts[v] ELSE Undefined

\* one iteration of  while (current && prev[current])
WalkStep(walk, prev, tradeAmounts) ==
  LET current == walk.current
      prevToken == prev[current]
      i == FindEdge(prevToken, current)
      edge == Neighbors(prevToken)[i]
      step == [from |-> prevToken, to |-> current, weight |-> StepWeight(edge),
               kind |-> edge.kind, edge |-> edge,
               inputAmount |-> AmountAt(tradeAmounts, prevToken),
               outputAmount |-> AmountAt(tradeAmounts, current)]
  IN [current |-> prevToken,
      path |-> <<current>> \o walk.path,
      steps |-> IF i = 0 THEN walk.steps ELSE <<step>> \o walk.steps]

\* if (current) path.unshift(current), and the returned route
\* estimatedOutput: tradeAmounts[target] || Math.exp(-dist[target])
RouteOf(walk, dist, tradeAmounts) ==
  LET totalWeight == IF target \in DOMAIN dist THEN dist[target] ELSE Undefined
      carried == AmountAt(tradeAmounts, target)
  IN [kind |-> "route",
      path |-> IF walk.current # NoPrev THEN <<walk.current>> \o walk.path ELSE walk.path,
      totalWeight |-> totalWeight,
      estimatedOutput |-> IF carried # Undefined /\ carried # 0 THEN carried
                          ELSE ExpNeg(totalWeight),
      steps |-> walk.steps]

\* the walk has put more vertices on the path than the records have keys:
\* prev holds a cycle and the loop never ends
WalkDiverged(walk, prev) == Len(walk.path) > Cardinality(DOMAIN prev)

ClassicWalk ==
  /\ cpc = "walk"
  /\ IF HasPrev(cl.prev, cl.walk.current)
       THEN IF WalkDiverged(cl.walk, cl.prev)
              THEN cpc' = "diverged" /\ cl' = cl /\ cres' = cres
              ELSE cpc' = "walk" /\ cres' = cres
                   /\ cl' = [cl EXCEPT !.walk = WalkStep(cl.walk, cl.prev, cl.tradeAmounts)]
       ELSE cpc' = "returned" /\ cl' = cl
            /\ cres' = RouteOf(cl.walk, cl.dist, cl.tradeAmounts)
  /\ UNCHANGED <<inputs, others, ps, ppc, pres>>

ClassicFinal == {"threw", "returned", "diverged"}

----------------------------------------------------------------------------
(* psbDijkstra.  A JavaScript Set is a sequence without repetitions, in    *)
(* insertion order.                                                        *)

SetAdd(seq, x) == IF x \in Range(seq) THEN seq ELSE Append(seq, x)

\* k = max(2, floor(cbrt(log2 n))): 3 needs log2 n >= 27
ParamK(size) == IF size >= Pow2(27) THEN 3 ELSE 2

\* t = max(2, floor(log2(n)^(2/3))): 3 needs log2 n >= 27^(1/2), n >= 37;
\* 4 needs log2 n >= 8, n >= 256
ParamT(size) == IF size >= 256 THEN 4 ELSE IF size >= 37 THEN 3 ELSE 2

\* maxLevel = ceil(ln(n) / t) for 1 <= n <= 403:
\* ln 1 = 0; e^2 < 8 and ln(36)/2 <= 2; ln(37)/3 > 1 and ln(255)/3 <= 2;
\* ln(256)/4 > 1 and ln(403)/4 <= 2
MaxLevel(size) ==
  IF size <= 1 THEN 0
  ELSE IF size <= 7 THEN 1
  ELSE 2

k == ParamK(n)
t == ParamT(n)

\* the relaxation of one edge u -> v in findPivots; st carries the records, Wi and W
PivotRelax(st, u, v, c, B) ==
  LET newDist == Plus(st.dist[u], c.weight)
      newHops == Plus(st.hopCount[u], 1)
  IN IF newDist <= st.dist[v] /\ newDist < B /\ newHops <= maxHops
       THEN [st EXCEPT !.dist[v] = newDist,
                       !.prev[v] = u,
                       !.hopCount[v] = newHops,
                       !.tradeAmounts[v] = c.outputAmount,
                       !.Wi = SetAdd(@, v),
                       !.W = SetAdd(@, v)]
       ELSE st

PivotRelaxEdge(st, u, currentAmount, edge, B) ==
  PivotRelax(st, u, edge.target, calculateEdgeWeight(edge, currentAmount), B)

RECURSIVE PivotRelaxAll(_, _, _, _, _, _)
PivotRelaxAll(st, u, currentAmount, edges, i, B) ==
  IF i > Len(edges) THEN st
  ELSE PivotRelaxAll(PivotRelaxEdge(st, u, currentAmount, edges[i], B),
                     u, currentAmount, edges, i + 1, B)

\* for (const u of Ws[i - 1])
RECURSIVE PivotRound(_, _, _, _)
PivotRound(st, frontier, j, B) ==
  IF j > Len(frontier) THEN st
  ELSE LET u == frontier[j] IN
       PivotRound(PivotRelaxAll(st, u, st.tradeAmounts[u], Neighbors(u), 1, B),
                  frontier, j + 1, B)

\* rounds i..k; the result carries early = TRUE when W grew beyond k * |S|
RECURSIVE PivotRounds(_, _, _, _, _)
RECURSIVE PivotRoundEnd(_, _, _, _)
PivotRounds(st, frontier, i, B, S) ==
  IF i > k THEN [st EXCEPT !.early = FALSE]
  ELSE PivotRoundEnd(PivotRound([st EXCEPT !.Wi = <<>>], frontier, 1, B), i, B, S)

\* Ws.push(Wi) and the early exit
PivotRoundEnd(after, i, B, S) ==
  IF Len(after.W) > k * Len(S) THEN [after EXCEPT !.early = TRUE]
  ELSE PivotRounds(after, after.Wi, i + 1, B, S)

\* forest[u]: the v of W with prev[v] = u (the second loop over the edges of
\* W adds only pairs with prev[v] === u, which the first loop has added)
ForestChildren(prev, W, u) == {v \in Range(W) : prev[v] = u}

RECURSIVE ForestReach(_, _, _)
ForestReach(prev, W, seen) ==
  LET more == seen \cup UNION {ForestChildren(prev, W, u) : u \in seen}
  IN IF more = seen THEN seen ELSE ForestReach(prev, W, more)

\* countSubtree(u)
countSubtree(prev, W, u) == Cardinality(ForestReach(prev, W, {u}))

\* findPivots that returns every vertex of S as a pivot
PivotsAll(S, done) ==
  [dist |-> done.dist, prev |-> done.prev, hopCount |-> done.hopCount,
   tradeAmounts |-> done.tradeAmounts,
   early |-> done.early,
   completedVertices |-> done.W,
   pivots |-> S]

\* the pivots: S on the early exit, else the u of S with a subtree of size >= k
Pivots(S, done) ==
  [dist |-> done.dist, prev |-> done.prev, hopCount |-> done.hopCount,
   tradeAmounts |-> done.tradeAmounts,
   early |-> done.early,
   completedVertices |-> done.W,
   pivots |-> IF done.early THEN S
              ELSE SelectSeq(S, LAMBDA u : countSubtree(done.prev, done.W, u) >= k)]

findPivots(B, S, labels) ==
  Pivots(S, PivotRounds([dist |-> labels.dist, prev |-> labels.prev,
                         hopCount |-> labels.hopCount,
                         tradeAmounts |-> labels.tradeAmounts,
                         Wi |-> <<>>, W |-> S, early |-> FALSE],
                        S, 1, B, S))

\* completed.add(v) for the v of a sequence with dist[v] < B
RECURSIVE MarkCompleted(_, _, _, _)
MarkCompleted(completed, dist, seq, B) ==
  IF seq = <<>> THEN completed
  ELSE MarkCompleted(IF dist[Head(seq)] < B THEN completed \cup {Head(seq)} ELSE completed,
                     dist, Tail(seq), B)

----------------------------------------------------------------------------
(* BMSSP *)

\* base case: the relaxation of one edge s -> v
BaseRelax(st, u, v, c, B) ==
  LET newDist == Plus(st.dist[u], c.weight)
      newHops == Plus(st.hopCount[u], 1)
  IN IF newDist < st.dist[v] /\ newDist < B /\ newHops <= maxHops
       THEN [st EXCEPT !.dist[v] = newDist,
                       !.prev[v] = u,
                       !.hopCount[v] = newHops,
                       !.tradeAmounts[v] = c.outputAmount]
       ELSE st

BaseRelaxEdge(st, u, currentAmount, edge, B) ==
  BaseRelax(st, u, edge.target, calculateEdgeWeight(edge, currentAmount), B)

RECURSIVE BaseRelaxAll(_, _, _, _, _, _)
BaseRelaxAll(st, u, currentAmount, edges, i, B) ==
  IF i > Len(edges) THEN st
  ELSE BaseRelaxAll(BaseRelaxEdge(st, u, currentAmount, edges[i], B),
                    u, currentAmount, edges, i + 1, B)

\* base case: for (const s of S); st carries the records, completed and localCompleted
RECURSIVE BaseCase(_, _, _, _)
BaseCase(st, S, j, B) ==
  IF j > Len(S) THEN st
  ELSE LET s == S[j] IN
       IF st.dist[s] < B /\ s \notin st.completed
         THEN BaseCase(BaseRelaxAll([st EXCEPT !.completed = @ \cup {s},
                                               !.localCompleted = Append(@, s)],
                                    s, st.tradeAmounts[s], Neighbors(s), 1, B),
                       S, j + 1, B)
         ELSE BaseCase(st, S, j + 1, B)

\* after a recursive call: the relaxation of one edge u -> v
AfterRelaxOne(st, u, v, c) ==
  LET newDist == Plus(st.dist[u], c.weight)
  IN IF newDist <= st.dist[v]
       THEN [st EXCEPT !.dist[v] = newDist,
                       !.prev[v] = u,
                       !.tradeAmounts[v] = c.outputAmount]
       ELSE st

AfterRelaxEdge(st, u, currentAmount, edge) ==
  AfterRelaxOne(st, u, edge.target, calculateEdgeWeight(edge, currentAmount))

RECURSIVE AfterRelaxAll(_, _, _, _, _)
AfterRelaxAll(st, u, currentAmount, edges, i) ==
  IF i > Len(edges) THEN st
  ELSE AfterRelaxAll(AfterRelaxEdge(st, u, currentAmount, edges[i]),
                     u, currentAmount, edges, i + 1)

\* for (const u of Ui)
RECURSIVE AfterRelax(_, _, _)
AfterRelax(st, Ui, j) ==
  IF j > Len(Ui) THEN st
  ELSE AfterRelax(AfterRelaxAll(st, Ui[j], st.tradeAmounts[Ui[j]], Neighbors(Ui[j]), 1),
                  Ui, j + 1)

RECURSIVE SetAddAll(_, _)
SetAddAll(seq, more) ==
  IF more = <<>> THEN seq ELSE SetAddAll(SetAdd(seq, Head(more)), Tail(more))

Frame(level, B, S) ==
  [level |-> level, B |-> B, S |-> S, P |-> <<>>, U |-> <<>>, Bi |-> B, i |-> 0,
   phase |-> "enter"]

NoReturn == [boundaryReached |-> Inf, completedVertices |-> <<>>]

PsbInit(src, size, amt) ==
  [dist |-> InitDist(src, size),
   prev |-> InitPrev(src, size),
   hopCount |-> InitHopCount(src, size),
   tradeAmounts |-> InitTradeAmounts(src, size, amt),
   completed |-> {},
   stack |-> <<>>,
   ret |-> NoReturn,
   walk |-> NoWalk]

Top == ps.stack[Len(ps.stack)]

Pop(stack) == SubSeq(stack, 1, Len(stack) - 1)

\* the top call returns (B, U) to its caller
Returned(st, B, U) ==
  [st EXCEPT !.stack = Pop(@),
             !.ret = [boundaryReached |-> B, completedVertices |-> U]]

\* the top-level call BMSSP(maxLevel, Infinity, new Set([source]))
PsbCall ==
  /\ cpc \in ClassicFinal
  /\ ppc = "idle"
  /\ ps' = [ps EXCEPT !.stack = <<Frame(MaxLevel(n), Inf, <<source>>)>>]
  /\ ppc' = "run"
  /\ UNCHANGED <<inputs, others, cl, cpc, cres, pres>>

\* the base case returns (B, localCompleted)
BaseReturn(st) ==
  Returned([ps EXCEPT !.dist = st.dist, !.prev = st.prev,
                      !.hopCount = st.hopCount,
                      !.tradeAmounts = st.tradeAmounts,
                      !.completed = st.completed],
           Top.B, st.localCompleted)

\* after findPivots: W is marked completed, U = W, Bi = B, i = 0
LoopStart(fp) ==
  [ps EXCEPT !.dist = fp.dist, !.prev = fp.prev,
             !.hopCount = fp.hopCount,
             !.tradeAmounts = fp.tradeAmounts,
             !.completed = MarkCompleted(ps.completed, fp.dist, fp.completedVertices, Top.B),
             !.stack[Len(ps.stack)] =
                [Top EXCEPT !.P = fp.pivots, !.U = fp.completedVertices, !.Bi = Top.B,
                            !.i = 0, !.phase = "loop"]]

\* BMSSP from its entry to the head of its loop or, in the base case, to its return
BMSSPEnter ==
  /\ ppc = "run"
  /\ Len(ps.stack) > 0
  /\ Top.phase = "enter"
  /\ IF Top.level = 0 \/ Len(Top.S) = 0
       THEN ps' = BaseReturn(BaseCase([dist |-> ps.dist, prev |-> ps.prev,
                                       hopCount |-> ps.hopCount,
                                       tradeAmounts |-> ps.tradeAmounts,
                                       completed |-> ps.completed,
                                       localCompleted |-> <<>>], Top.S, 1, Top.B))
       ELSE ps' = LoopStart(findPivots(Top.B, Top.S, ps))
  /\ ppc' = "run"
  /\ UNCHANGED <<inputs, others, cl, cpc, cres, pres>>

\* while (U.size < k * 2^(level*t) && P.size > 0 && i < maxIterations)
LoopGoesOn(f) ==
  /\ Len(f.U) < k * Pow2(f.level * t)
  /\ Len(f.P) > 0
  /\ f.i < Pow2(t)

\* the head of the while loop: leave it, or pull Si from P and recurse
BMSSPIterate ==
  /\ ppc = "run"
  /\ Len(ps.stack) > 0
  /\ Top.phase = "loop"
  /\ IF LoopGoesOn(Top)
       THEN LET targetSize == Min(Len(Top.P), Pow2((Top.level - 1) * t))
                Si == SubSeq(Top.P, 1, targetSize)
                rest == SubSeq(Top.P, targetSize + 1, Len(Top.P))
            IN IF Len(Si) = 0
                 THEN ps' = Returned(ps, Top.Bi, Top.U)
                 ELSE ps' = [ps EXCEPT !.stack =
                               Append([ps.stack EXCEPT ![Len(ps.stack)] =
                                          [Top EXCEPT !.i = @ + 1, !.P = rest, !.phase = "await"]],
                                      Frame(Top.level - 1, Top.Bi, Si))]
       ELSE ps' = Returned(ps, Top.Bi, Top.U)
  /\ ppc' = "run"
  /\ UNCHANGED <<inputs, others, cl, cpc, cres, pres>>

\* dist[target] < Bi
TargetWithin(dist, Bi) == target \in DOMAIN dist /\ dist[target] < Bi

\* the loop body after the relaxations: U, Bi, the early termination
LoopEnd(st, Ui, Bi) ==
  LET f == [Top EXCEPT !.U = SetAddAll(@, Ui), !.Bi = Bi, !.phase = "loop"]
      next == [ps EXCEPT !.dist = st.dist, !.prev = st.prev,
                         !.tradeAmounts = st.tradeAmounts,
                         !.completed = @ \cup Range(Ui),
                         !.stack[Len(ps.stack)] = f]
  IN IF TargetWithin(st.dist, Bi) THEN Returned(next, Bi, f.U) ELSE next

\* the loop body after the recursive call has returned (B', Ui)
BMSSPResume ==
  /\ ppc = "run"
  /\ Len(ps.stack) > 0
  /\ Top.phase = "await"
  /\ ps' = LoopEnd(AfterRelax([dist |-> ps.dist, prev |-> ps.prev,
                               tradeAmounts |-> ps.tradeAmounts],
                              ps.ret.completedVertices, 1),
                   ps.ret.completedVertices,
                   Min(Top.Bi, ps.ret.boundaryReached))
  /\ ppc' = "run"
  /\ UNCHANGED <<inputs, others, cl, cpc, cres, pres>>

\* the top-level call has returned
PsbCheck ==
  /\ ppc = "run"
  /\ Len(ps.stack) = 0
  /\ IF Unreachable(ps.dist)
       THEN ppc' = "threw" /\ pres' = NoRouteError /\ ps' = ps
       ELSE ppc' = "walk" /\ pres' = pres
            /\ ps' = [ps EXCEPT !.walk = [current |-> target, path |-> <<>>, steps |-> <<>>]]
  /\ UNCHANGED <<inputs, others, cl, cpc, cres>>

PsbWalk ==
  /\ ppc = "walk"
  /\ IF HasPrev(ps.prev, ps.walk.current)
       THEN IF WalkDiverged(ps.walk, ps.prev)
              THEN ppc' = "diverged" /\ ps' = ps /\ pres' = pres
              ELSE ppc' = "walk" /\ pres' = pres
                   /\ ps' = [ps EXCEPT !.walk = WalkStep(ps.walk, ps.prev, ps.tradeAmounts)]
       ELSE ppc' = "returned" /\ ps' = ps
            /\ pres' = RouteOf(ps.walk, ps.dist, ps.tradeAmounts)
  /\ UNCHANGED <<inputs, others, cl, cpc, cres>>

PsbFinal == {"threw", "returned", "diverged"}

----------------------------------------------------------------------------
(* The runs: one graph and one query, classicDijkstra and then psbDijkstra  *)

Sizes == {1, NActive, NActive + PadWide}

Amounts == {0, AmtScale}

NoResult == [kind |-> "none", path |-> <<>>, totalWeight |-> Undefined,
             estimatedOutput |-> Undefined, steps |-> <<>>]

Start(g, size, src, tgt, amt, hops) ==
  /\ graph = g
  /\ n = size
  /\ source = src
  /\ target = tgt
  /\ inputAmount = amt
  /\ maxHops = hops
  /\ cl = ClassicInit(src, size, amt)
  /\ cpc = "loop"
  /\ cres = NoResult
  /\ ps = PsbInit(src, size, amt)
  /\ ppc = "idle"
  /\ pres = NoResult
  /\ fb = Idle /\ build = Idle /\ val = Idle /\ call = Idle /\ est = Idle /\ mon = Idle

\* source and target: vertex 1 to the last two active vertices and to itself,
\* and a key that is not in the graph on either side
Queries(size) ==
  IF size < NActive
    THEN {<<1, 1>>, <<1, size + 1>>, <<size + 1, 1>>}
    ELSE {<<1, NActive>>, <<1, NActive - 1>>, <<1, 1>>,
          <<1, size + 1>>, <<size + 1, NActive>>}

Init ==
  \E size \in Sizes :
  \E chosen \in EdgeSets :
  \E q \in Queries(size) :
  \E amt \in Amounts :
  \E hops \in 1..MaxHopsBound :
     /\ size < NActive => chosen = {}
     /\ Start(GraphOf(chosen, size), size, q[1], q[2], amt, hops)

Next ==
  \/ ClassicLoop
  \/ ClassicLoopExit
  \/ ClassicCheck
  \/ ClassicWalk
  \/ PsbCall
  \/ BMSSPEnter
  \/ BMSSPIterate
  \/ BMSSPResume
  \/ PsbCheck
  \/ PsbWalk

Spec == Init /\ [][Next]_vars

----------------------------------------------------------------------------
(* Scenario 5: the chain A -> B -> C -> D -> E -> F, each edge of nominal   *)
(* rate 0.99                                                               *)

ChainLength == 6

ChainGraph ==
  [v \in 1..ChainLength |->
     IF v < ChainLength THEN <<Swap(v + 1, 99, 100, 0, NoPool)>> ELSE <<>>]

InitChain ==
  \E src \in 1..ChainLength :
  \E tgt \in 1..ChainLength :
  \E hops \in 1..ChainLength :
     Start(ChainGraph, ChainLength, src, tgt, AmtScale, hops)

SpecChain == InitChain /\ [][Next]_vars

----------------------------------------------------------------------------
(* The solvers' variables while another component of the program runs       *)

SolversOff ==
  /\ graph = <<>>
  /\ n = 0
  /\ source = 1
  /\ target = 1
  /\ inputAmount = 0
  /\ maxHops = 1
  /\ cl = Idle
  /\ cpc = "off"
  /\ cres = NoResult
  /\ ps = Idle
  /\ ppc = "off"
  /\ pres = NoResult

solvers == <<inputs, cl, cpc, cres, ps, ppc, pres>>

----------------------------------------------------------------------------
(* The graph builders: buildRouteGraph (router.ts) and buildLargeScaleGraph *)
(* (graph-generator.ts).  A RouteGraph is a JavaScript object; it is        *)
(* modelled as the sequence of its own properties in insertion order, which *)
(* is the order of Object.keys for token keys of the form SYMBOL.chain.     *)

MaxVertices == 3
MaxTargetEdges == 6
MaxAverageDegree == 2

HasKey(g, tk) == \E i \in 1..Len(g) : g[i].key = tk

\* graph[tk] = value
Put(g, tk, value) ==
  IF HasKey(g, tk)
    THEN [i \in 1..Len(g) |->
            IF g[i].key = tk THEN [key |-> tk, edges |-> value] ELSE g[i]]
    ELSE Append(g, [key |-> tk, edges |-> value])

\* graph[tk].push(edge), for a key the graph has
PushEdge(g, tk, edge) ==
  [i \in 1..Len(g) |->
     IF g[i].key = tk THEN [g[i] EXCEPT !.edges = Append(@, edge)] ELSE g[i]]

ObjectKeys(g) == [i \in 1..Len(g) |-> g[i].key]

EdgesOf(g, tk) == g[CHOOSE i \in 1..Len(g) : g[i].key = tk].edges

\* A vertex; a missing key, symbol or chain is the empty string.
Vertex(tk, s, c) == [key |-> tk, symbol |-> s, chain |-> c]

VertexPool ==
  { Vertex("USDC.ethereum", "USDC", "ethereum"),
    Vertex("USDC.polygon", "USDC", "polygon"),
    Vertex("DAI.ethereum", "DAI", "ethereum"),
    Vertex("USDC.ethereum", "USDC", "polygon"),
    Vertex("", "DAI", "ethereum"),
    Vertex("ETH.ethereum", "", "ethereum"),
    Vertex("DAI.polygon", "DAI", "") }

SeqsUpTo(S, len) == UNION {[1..m -> S] : m \in 0..len}

\* !v.key || !v.symbol || !v.chain
Incomplete(v) == v.key = "" \/ v.symbol = "" \/ v.chain = ""

RECURSIVE InitVertices(_, _, _)
InitVertices(g, vertices, i) ==
  IF i > Len(vertices) THEN g
  ELSE IF Incomplete(vertices[i]) \/ HasKey(g, vertices[i].key)
    THEN InitVertices(g, vertices, i + 1)
    ELSE InitVertices(Put(g, vertices[i].key, <<>>), vertices, i + 1)

SwapPairSameChain(v, u) ==
  /\ ~Incomplete(v)
  /\ ~Incomplete(u)
  /\ v.chain = u.chain

\* The pairs (v, u) of the swap loop that reach the oracle.
SwapPairEligible(v, u) ==
  /\ ~Incomplete(v)
  /\ v.key # u.key
  /\ ~Incomplete(u)
  /\ v.chain = u.chain

\* What the price oracle and the balance lookup can answer: a ratio (0 for
\* null, a non-positive ratio or an exception) and a balance in units of 1e-6.
PriceRatios == {<<0, 1>>, <<1, 2>>, <<2, 1>>}
Balances == {0, 1}

SwapEdge(tok, priceRatio) == Swap(tok, priceRatio[1], priceRatio[2], 0, NoPool)

BridgeEdge(tok) == [Bridge(tok, 1, 2, 0) EXCEPT !.rateN = 999, !.rateD = 1000]

BRIDGEABLE_TOKENS == <<"USDC", "USDT", "WETH", "WMATIC", "DAI", "WBTC">>

TokensWithSymbol(vertices, symbol) ==
  SelectSeq(vertices, LAMBDA v : v.symbol = symbol /\ v.key # "" /\ v.chain # "")

RECURSIVE AddBridges(_, _, _, _)
AddBridges(g, tokens, i, j) ==
  IF i > Len(tokens) THEN g
  ELSE IF j > Len(tokens) THEN AddBridges(g, tokens, i + 1, 1)
  ELSE IF tokens[i].key = tokens[j].key \/ tokens[i].chain = tokens[j].chain
    THEN AddBridges(g, tokens, i, j + 1)
    ELSE AddBridges(PushEdge(g, tokens[i].key, BridgeEdge(tokens[j].key)),
                    tokens, i, j + 1)

RECURSIVE BridgeAll(_, _, _)
BridgeAll(g, vertices, s) ==
  IF s > Len(BRIDGEABLE_TOKENS) THEN g
  ELSE BridgeAll(AddBridges(g, TokensWithSymbol(vertices, BRIDGEABLE_TOKENS[s]), 1, 1),
                 vertices, s + 1)

NoOptions == [targetEdgeCount |-> 0, averageDegree |-> 1, rate |-> <<1, 1>>]

BuildRoute(vertices, skip) ==
  [pc |-> "init", vertices |-> vertices, skipExternalData |-> skip,
   graph |-> <<>>, v |-> 1, u |-> 1, options |-> NoOptions]

BuildLarge(options) ==
  [pc |-> "fetch", vertices |-> <<>>, skipExternalData |-> FALSE,
   graph |-> <<>>, v |-> 1, u |-> 1, options |-> options]

\* buildRouteGraph up to the first call of the oracle
BuildStart ==
  /\ build.pc = "init"
  /\ IF build.skipExternalData
       THEN build' = [build EXCEPT !.pc = "done"]
       ELSE build' = [build EXCEPT !.pc = "swap",
                        !.graph = InitVertices(<<>>, build.vertices, 1)]
  /\ UNCHANGED <<solvers, fb, val, call, est, mon>>

\* One iteration of the inner swap loop, with the answers of the oracle and
\* of the balance lookup.
BuildSwapPair ==
  /\ build.pc = "swap"
  /\ build.v <= Len(build.vertices)
  /\ \E priceRatio \in PriceRatios :
     \E balance \in Balances :
       LET v == build.vertices[build.v]
           u == build.vertices[build.u]
           g == IF SwapPairEligible(v, u) /\ priceRatio[1] > 0 /\ balance >= 1
                  THEN PushEdge(build.graph, v.key, SwapEdge(u.key, priceRatio))
                  ELSE build.graph
       IN build' = [build EXCEPT
                      !.graph = g,
                      !.u = IF build.u < Len(build.vertices) THEN build.u + 1 ELSE 1,
                      !.v = IF build.u < Len(build.vertices) THEN build.v ELSE build.v + 1]
  /\ UNCHANGED <<solvers, fb, val, call, est, mon>>

\* The bridge edges, and the return
BuildBridges ==
  /\ build.pc = "swap"
  /\ build.v > Len(build.vertices)
  /\ build' = [build EXCEPT !.pc = "done",
                 !.graph = BridgeAll(build.graph, build.vertices, 1)]
  /\ UNCHANGED <<solvers, fb, val, call, est, mon>>

commonTokens == <<"ETH.ethereum", "USDC.ethereum", "MATIC.polygon">>

chains == <<"ethereum", "polygon", "avail", "arbitrum", "optimism">>

SyntheticKey(i) == "TOKEN" \o ToString(i) \o "." \o chains[(i % Len(chains)) + 1]

RECURSIVE PutAll(_, _, _)
PutAll(g, keys, i) ==
  IF i > Len(keys) THEN g ELSE PutAll(Put(g, keys[i], <<>>), keys, i + 1)

CeilDiv(a, b) == (a + b - 1) \div b

\* Math.ceil(Math.sqrt(targetEdgeCount / averageDegree))
CeilSqrtOfRatio(a, b) ==
  CHOOSE m \in 0..a : m * m * b >= a /\ \A j \in 0..(m - 1) : j * j * b < a

\* fetchBlockscoutTokens: the common tokens whose balance lookup answered
LargeFetch ==
  /\ build.pc = "fetch"
  /\ \E found \in SUBSET (1..Len(commonTokens)) :
       build' = [build EXCEPT !.pc = "generate",
                   !.graph = PutAll(<<>>, SelectSeq(commonTokens,
                                LAMBDA tk : \E i \in found : commonTokens[i] = tk), 1)]
  /\ UNCHANGED <<solvers, fb, val, call, est, mon>>

PotentialTargets(allTokens, src, processedPairs) ==
  SelectSeq(allTokens, LAMBDA tok :
     /\ tok # src
     /\ <<src, tok>> \notin processedPairs
     /\ <<tok, src>> \notin processedPairs)

RECURSIVE PushTargets(_, _, _, _, _, _)
PushTargets(g, src, targets, count, rate, i) ==
  IF i > count THEN g
  ELSE PushTargets(PushEdge(g, src, SwapEdge(targets[i], rate)),
                   src, targets, count, rate, i + 1)

RECURSIVE GenerateEdges(_, _, _, _, _)
GenerateEdges(g, allTokens, options, processedPairs, s) ==
  IF s > Len(allTokens) THEN g
  ELSE
    LET src == allTokens[s]
        neededEdges == CeilDiv(options.targetEdgeCount, Len(allTokens))
                         - Len(EdgesOf(g, src))
        potentialTargets == PotentialTargets(allTokens, src, processedPairs)
        count == Max(0, Min(neededEdges, Len(potentialTargets)))
    IN GenerateEdges(PushTargets(g, src, potentialTargets, count, options.rate, 1),
                     allTokens, options,
                     processedPairs \cup {<<src, potentialTargets[i]>> : i \in 1..count},
                     s + 1)

\* buildLargeScaleGraph after the fetch: the synthetic tokens and the edges
LargeGenerate ==
  /\ build.pc = "generate"
  /\ LET existingTokenCount == Len(build.graph)
         targetTokenCount == CeilSqrtOfRatio(build.options.targetEdgeCount,
                                             build.options.averageDegree)
         syntheticTokenCount == Max(0, targetTokenCount - existingTokenCount)
         withSynthetic == PutAll(build.graph,
                            [i \in 1..syntheticTokenCount |-> SyntheticKey(i - 1)], 1)
     IN build' = [build EXCEPT !.pc = "done",
                    !.graph = GenerateEdges(withSynthetic, ObjectKeys(withSynthetic),
                                            build.options, {}, 1)]
  /\ UNCHANGED <<solvers, fb, val, call, est, mon>>

InitBuild ==
  /\ SolversOff
  /\ fb = Idle /\ val = Idle /\ call = Idle /\ est = Idle /\ mon = Idle
  /\ \/ \E vertices \in SeqsUpTo(VertexPool, MaxVertices) :
        \E skip \in BOOLEAN :
          build = BuildRoute(vertices, skip)
     \/ \E targetEdgeCount \in 0..MaxTargetEdges :
        \E averageDegree \in 1..MaxAverageDegree :
        \E rate \in PriceRatios \ {<<0, 1>>} :
          build = BuildLarge([targetEdgeCount |-> targetEdgeCount,
                              averageDegree |-> averageDegree, rate |-> rate])

NextBuild ==
  \/ BuildStart
  \/ BuildSwapPair
  \/ BuildBridges
  \/ LargeFetch
  \/ LargeGenerate

SpecBuild == InitBuild /\ [][NextBuild]_vars

----------------------------------------------------------------------------
(* validateRoute (route-validator.ts).  Amounts and reserves are integers,  *)
(* gas is in thousandths of an ETH, slippage in thousandths, money in USD,  *)
(* time in milliseconds.  The quality metrics and the score are left out.   *)

MaxSteps == 2

GasDen == 1000
SlipDen == 1000

\* hasSufficientLiquidity(inputAmount, reserveIn, maxUtilization), with the
\* utilization in tenths
hasSufficientLiquidity(amount, reserveIn, tenths) == 10 * amount <= reserveIn * tenths

\* step.details: an edge, or nothing
NoDetails == [present |-> FALSE, kind |-> "swap", rateN |-> 0, rateD |-> 1,
              liquidity |-> NoPool, gas |-> 0, estimatedTimeMs |-> 0]

Details(kind, rN, rD, pool, g, time) ==
  [present |-> TRUE, kind |-> kind, rateN |-> rN, rateD |-> rD,
   liquidity |-> pool, gas |-> g, estimatedTimeMs |-> time]

DetailsPool ==
  { NoDetails,
    Details("swap", 1, 1, NoPool, 0, 0),
    Details("swap", 0, 1, NoPool, 0, 0),
    Details("swap", 1, 1, Pool(1000, 1000, 3, "constant_product"), 0, 0),
    Details("swap", 1, 1, Pool(10000, 10000, 3, "constant_product"), 0, 30000),
    Details("swap", 1, 2, NoPool, 25, 0),
    Details("swap", 2, 1, NoPool, 30, 0),
    Details("swap", 1, 1, NoPool, 60, 0),
    Details("bridge", 999, 1000, NoPool, 0, 0) }

Failure(index, severity, reason, recoverable) ==
  [step |-> index, severity |-> severity, reason |-> reason, recoverable |-> recoverable]

Warning(index, type, impact) == [step |-> index, type |-> type, impact |-> impact]

\* Math.min(0.1, (currentAmount / reserveBase) ** 0.5 * 0.1) > limit / scale,
\* or 0.001 > limit / scale without a pool; limit in thousandths
ImpactExceeds(edge, amount, limit, scale) ==
  IF HasLiquidity(edge)
    THEN /\ 100 * scale > limit
         /\ 10000 * amount * scale * scale > edge.liquidity.reserveBase * limit * limit
    ELSE scale > limit

\* the price impact in thousandths, rounded down
PriceImpact(edge, amount) ==
  IF HasLiquidity(edge)
    THEN CHOOSE r \in 0..100 :
           /\ r * r * edge.liquidity.reserveBase <= 10000 * amount
           /\ r = 100 \/ (r + 1) * (r + 1) * edge.liquidity.reserveBase > 10000 * amount
    ELSE 1

LiquidityCheck(v, edge) ==
  IF ~HasLiquidity(edge) THEN v
  ELSE IF ~hasSufficientLiquidity(v.currentAmount, edge.liquidity.reserveBase, 3)
    THEN [v EXCEPT !.failures =
            Append(@, Failure(v.index, "critical", "insufficient_liquidity", FALSE))]
  ELSE IF ~hasSufficientLiquidity(v.currentAmount, edge.liquidity.reserveBase, 1)
    THEN [v EXCEPT !.warnings = Append(@, Warning(v.index, "low_liquidity", "moderate"))]
  ELSE v

SlippageCheck(v, edge) ==
  IF ~HasRate(edge) THEN v
  ELSE
    LET noted ==
          IF ImpactExceeds(edge, v.currentAmount, v.maxSlippage, 1)
            THEN [v EXCEPT !.failures =
                    Append(@, Failure(v.index, "high", "excessive_slippage", TRUE))]
          ELSE IF ImpactExceeds(edge, v.currentAmount, v.maxSlippage, 2)
            THEN [v EXCEPT !.warnings =
                    Append(@, Warning(v.index, "price_impact", "significant"))]
          ELSE v
    IN [noted EXCEPT !.currentAmount =
          (((v.currentAmount * edge.rateN) \div edge.rateD)
              * (SlipDen - PriceImpact(edge, v.currentAmount))) \div SlipDen]

\* gasUSD = edge.gas * ethPriceUSD, here times GasDen
GasCheck(v, edge) ==
  IF edge.gas = 0 THEN v
  ELSE
    LET gasUSD == edge.gas * v.ethPriceUSD
        counted == [v EXCEPT !.totalGasUSD = @ + gasUSD]
    IN IF gasUSD > v.maxGasUSD * GasDen
         THEN [counted EXCEPT !.failures =
                 Append(@, Failure(v.index, "medium", "gas_too_high", TRUE))]
       ELSE IF 2 * gasUSD > v.maxGasUSD * GasDen
         THEN [counted EXCEPT !.warnings = Append(@, Warning(v.index, "high_gas", "moderate"))]
       ELSE counted

TimeCheck(v, edge) ==
  [v EXCEPT !.totalTimeMs =
     @ + (IF edge.estimatedTimeMs # 0 THEN edge.estimatedTimeMs
          ELSE IF edge.kind = "bridge" THEN 300000 ELSE 30000)]

\* the callback of route.steps.forEach, for the step at v.index
StepChecked(v) ==
  LET edge == v.steps[v.index + 1] IN
  IF ~edge.present
    THEN [v EXCEPT !.failures = Append(@, Failure(v.index, "critical", "pool_unavailable", FALSE))]
    ELSE TimeCheck(GasCheck(SlippageCheck(LiquidityCheck(v, edge), edge), edge), edge)

AllFailures(failures) == failures

\* failures.filter(f => f.severity === 'critical')
CriticalFailures(failures) == SelectSeq(failures, LAMBDA f : f.severity = "critical")

NoValidation == [isValid |-> FALSE, failures |-> <<>>, warnings |-> <<>>,
                 estimatedSuccessRate |-> 0]

\* estimatedSuccessRate in hundredths
ValidationResult(v, warnings) ==
  [isValid |-> Len(CriticalFailures(v.failures)) = 0,
   failures |-> v.failures,
   warnings |-> warnings,
   estimatedSuccessRate |->
     IF Len(CriticalFailures(v.failures)) > 0 THEN 0
     ELSE Max(0, 100 - (Len(v.failures) * 20 + Len(warnings) * 5))]

ValidateCall(steps, amount, ethPriceUSD, maxSlippage, maxGasUSD, maxTimeMs) ==
  [pc |-> "steps", steps |-> steps, inputAmount |-> amount, ethPriceUSD |-> ethPriceUSD,
   maxSlippage |-> maxSlippage, maxGasUSD |-> maxGasUSD, maxTimeMs |-> maxTimeMs,
   index |-> 0, currentAmount |-> amount, totalGasUSD |-> 0, totalTimeMs |-> 0,
   failures |-> <<>>, warnings |-> <<>>, result |-> NoValidation]

\* one step of the route
ValidateStep ==
  /\ val.pc = "steps"
  /\ val.index < Len(val.steps)
  /\ val' = [StepChecked(val) EXCEPT !.index = val.index + 1]
  /\ UNCHANGED <<solvers, fb, build, call, est, mon>>

\* the total time, the success rate and the verdict
ValidateReturn ==
  /\ val.pc = "steps"
  /\ val.index = Len(val.steps)
  /\ LET warnings == IF val.totalTimeMs > val.maxTimeMs
                       THEN Append(val.warnings, Warning(-1, "long_delay", "significant"))
                       ELSE val.warnings
     IN val' = [val EXCEPT !.pc = "done", !.warnings = warnings,
                  !.result = ValidationResult(val, warnings)]
  /\ UNCHANGED <<solvers, fb, build, call, est, mon>>

ValidateAmounts == {200, 1000, 3000}

InitValidate ==
  /\ SolversOff
  /\ fb = Idle /\ build = Idle /\ call = Idle /\ est = Idle /\ mon = Idle
  /\ \E steps \in SeqsUpTo(DetailsPool, MaxSteps) :
     \E amount \in ValidateAmounts :
     \E maxGasUSD \in {100, 50} :
     \E maxTimeMs \in {600000, 300000} :
       val = ValidateCall(steps, amount, 2000, 50, maxGasUSD, maxTimeMs)

NextValidate ==
  \/ ValidateStep
  \/ ValidateReturn

SpecValidate == InitValidate /\ [][NextValidate]_vars

----------------------------------------------------------------------------
(* The AMM functions called on their own (amm-math.ts), over exact          *)
(* fractions <<numerator, denominator>> in lowest terms.                    *)

MaxAmountIn == 8

Abs(x) == IF x < 0 THEN 0 - x ELSE x

RECURSIVE Gcd(_, _)
Gcd(a, b) == IF b = 0 THEN a ELSE Gcd(b, a % b)

Frac(num, den) == LET g == Gcd(Abs(num), den) IN <<num \div g, den \div g>>

Whole(x) == <<x, 1>>

FracAdd(p, q) ==
  LET g == Gcd(p[2], q[2])
  IN Frac(p[1] * (q[2] \div g) + q[1] * (p[2] \div g), (p[2] \div g) * q[2])

FracSub(p, q) == FracAdd(p, <<0 - q[1], q[2]>>)

FracMul(p, q) ==
  LET g1 == Gcd(Abs(p[1]), q[2])
      g2 == Gcd(Abs(q[1]), p[2])
  IN Frac((p[1] \div g1) * (q[1] \div g2), (p[2] \div g2) * (q[2] \div g1))

\* p / q for q > 0
FracDiv(p, q) == FracMul(p, <<q[2], q[1]>>)

\* p < q for fractions that are not negative, by their continued fractions
RECURSIVE FracLess(_, _)
FracLess(p, q) ==
  LET a == p[1] \div p[2]
      b == q[1] \div q[2]
      r == p[1] % p[2]
      s == q[1] % q[2]
  IN IF a # b THEN a < b
     ELSE IF s = 0 THEN FALSE
     ELSE IF r = 0 THEN TRUE
     ELSE FracLess(<<q[2], s>>, <<p[2], r>>)

FracLeq(p, q) == ~FracLess(q, p)

FracMin(p, q) == IF FracLess(q, p) THEN q ELSE p
FracMax(p, q) == IF FracLess(p, q) THEN q ELSE p

ThrownExact == [ok |-> FALSE, outputAmount |-> Whole(0), effectiveRate |-> Whole(0)]

\* getOutputAmountConstantProduct on fractions
ConstantProductExact(amountIn, reserveIn, reserveOut, feePercent) ==
  IF FracLeq(amountIn, Whole(0)) THEN ThrownExact
  ELSE IF FracLeq(reserveIn, Whole(0)) \/ FracLeq(reserveOut, Whole(0)) THEN ThrownExact
  ELSE IF FracLeq(FracMul(reserveIn, Frac(9, 10)), amountIn) THEN ThrownExact
  ELSE LET inputAmountWithFee == FracMul(amountIn, FracSub(Whole(1), feePercent))
           numerator == FracMul(reserveOut, inputAmountWithFee)
           denominator == FracAdd(reserveIn, inputAmountWithFee)
           outputAmount == FracDiv(numerator, denominator)
       IN [ok |-> TRUE, outputAmount |-> outputAmount,
           effectiveRate |-> FracDiv(outputAmount, amountIn)]

StableSwapMix(amountIn, constantSumOutput, constantProductOutput, mix) ==
  LET outputAmount == FracAdd(FracMul(constantSumOutput, mix),
                              FracMul(constantProductOutput, FracSub(Whole(1), mix)))
  IN [ok |-> TRUE, outputAmount |-> outputAmount,
      effectiveRate |-> FracDiv(outputAmount, amountIn)]

\* getOutputAmountStableSwap on fractions
StableSwapExact(amountIn, reserveIn, reserveOut, amplificationCoefficient, feePercent) ==
  IF FracLeq(amountIn, Whole(0)) \/ FracLeq(reserveIn, Whole(0))
       \/ FracLeq(reserveOut, Whole(0)) THEN ThrownExact
  ELSE LET inputAmountWithFee == FracMul(amountIn, FracSub(Whole(1), feePercent))
           balanceRatio == FracDiv(FracMin(reserveIn, reserveOut), FracMax(reserveIn, reserveOut))
           weight == FracMin(Whole(1), Frac(amplificationCoefficient, 200))
           cp == ConstantProductExact(amountIn, reserveIn, reserveOut, feePercent)
       IN IF ~cp.ok THEN ThrownExact
          ELSE StableSwapMix(amountIn, inputAmountWithFee, cp.outputAmount,
                             FracMul(weight, balanceRatio))

\* getOutputAmountConcentratedLiquidity on fractions
ConcentratedLiquidityExact(amountIn, pool, activeRangeLiquidity) ==
  ConstantProductExact(amountIn,
                       FracMul(Whole(pool.reserveBase), activeRangeLiquidity),
                       FracMul(Whole(pool.reserveQuote), activeRangeLiquidity),
                       Frac(pool.feePercent, FeeDen))

\* a call with two input amounts on one pool
AmmCall(fn, pool, amplificationCoefficient, dx1, dx2) ==
  [pc |-> "called", fn |-> fn, pool |-> pool,
   amplificationCoefficient |-> amplificationCoefficient,
   dx1 |-> dx1, dx2 |-> dx2, out1 |-> ThrownExact, out2 |-> ThrownExact]

CallConstantProduct ==
  /\ call.pc = "called"
  /\ call.fn = "constant_product"
  /\ call' = [call EXCEPT !.pc = "returned",
       !.out1 = ConstantProductExact(Whole(call.dx1), Whole(call.pool.reserveBase),
                   Whole(call.pool.reserveQuote), Frac(call.pool.feePercent, FeeDen)),
       !.out2 = ConstantProductExact(Whole(call.dx2), Whole(call.pool.reserveBase),
                   Whole(call.pool.reserveQuote), Frac(call.pool.feePercent, FeeDen))]
  /\ UNCHANGED <<solvers, fb, build, val, est, mon>>

CallStableSwap ==
  /\ call.pc = "called"
  /\ call.fn = "stable_swap"
  /\ call' = [call EXCEPT !.pc = "returned",
       !.out1 = StableSwapExact(Whole(call.dx1), Whole(call.pool.reserveBase),
                   Whole(call.pool.reserveQuote), call.amplificationCoefficient,
                   Frac(call.pool.feePercent, FeeDen)),
       !.out2 = StableSwapExact(Whole(call.dx2), Whole(call.pool.reserveBase),
                   Whole(call.pool.reserveQuote), call.amplificationCoefficient,
                   Frac(call.pool.feePercent, FeeDen))]
  /\ UNCHANGED <<solvers, fb, build, val, est, mon>>

CallConcentratedLiquidity ==
  /\ call.pc = "called"
  /\ call.fn = "concentrated_liquidity"
  /\ call' = [call EXCEPT !.pc = "returned",
       !.out1 = ConcentratedLiquidityExact(Whole(call.dx1), call.pool, Frac(3, 10)),
       !.out2 = ConcentratedLiquidityExact(Whole(call.dx2), call.pool, Frac(3, 10))]
  /\ UNCHANGED <<solvers, fb, build, val, est, mon>>

Reserves == {10, 20}
Fees == {0, 3}

InitAmm ==
  /\ SolversOff
  /\ fb = Idle /\ build = Idle /\ val = Idle /\ est = Idle /\ mon = Idle
  /\ \E fn \in {"constant_product", "stable_swap", "concentrated_liquidity"} :
     \E reserveBase \in Reserves :
     \E reserveQuote \in Reserves :
     \E feePercent \in Fees :
     \E amplificationCoefficient \in {100, 200} :
     \E dx1 \in 1..MaxAmountIn :
     \E dx2 \in 1..MaxAmountIn :
        /\ dx1 < dx2
        /\ fn # "stable_swap" => amplificationCoefficient = 100
        /\ call = AmmCall(fn, Pool(reserveBase, reserveQuote, feePercent, fn),
                          amplificationCoefficient, dx1, dx2)

NextAmm ==
  \/ CallConstantProduct
  \/ CallStableSwap
  \/ CallConcentratedLiquidity

SpecAmm == InitAmm /\ [][NextAmm]_vars

----------------------------------------------------------------------------
(* findBestRoute (router.ts), on the graphs and queries of the solvers      *)

\* edge.rate && edge.rate > 0 ? -Math.log(edge.rate) : (Number.MAX_VALUE/2)
RateWeight(edge) ==
  IF HasRate(edge) THEN NegLog(edge.rateN, edge.rateD) ELSE SentinelWeight

\* dist[v], undefined for a key the record does not have
DistAt(dist, v) == IF v \in DOMAIN dist THEN dist[v] ELSE Undefined

\* prev[v], undefined for a key the record does not have
PrevAt(prev, v) == IF v \in DOMAIN prev THEN prev[v] ELSE Undefined

FbInit(src, size) ==
  [pc |-> "loop",
   dist |-> [v \in (1..size) \cup {src} |-> IF v = src THEN 0 ELSE Inf],
   prev |-> [v \in 1..size |-> NoPrev],
   visited |-> {},
   level |-> <<src>>,
   nextLevel |-> <<>>,
   hop |-> 0,
   result |-> NoResult]

\* the body of  for (const edge of graph[u] || [])
FbRelaxEdge(st, u, edge) ==
  LET v == edge.target
      w == RateWeight(edge)
  IN IF v \in st.visited THEN st
     ELSE IF DistAt(st.dist, v) # Undefined /\ Plus(st.dist[u], w) < st.dist[v]
       THEN [st EXCEPT !.dist[v] = Plus(st.dist[u], w),
                       !.prev[v] = u,
                       !.nextLevel = Append(@, v)]
     ELSE st

RECURSIVE FbRelaxAll(_, _, _)
FbRelaxAll(st, u, i) ==
  IF i > Len(Neighbors(u)) THEN st
  ELSE FbRelaxAll(FbRelaxEdge(st, u, Neighbors(u)[i]), u, i + 1)

\* for (const u of levels[currentLevel])
RECURSIVE FbVisitLevel(_, _)
FbVisitLevel(st, j) ==
  IF j > Len(st.level) THEN st
  ELSE LET u == st.level[j] IN
       IF u \in st.visited THEN FbVisitLevel(st, j + 1)
       ELSE FbVisitLevel(FbRelaxAll([st EXCEPT !.visited = @ \cup {u}], u, 1), j + 1)

\* dist[target] < Infinity
TargetReached(dist) == DistAt(dist, target) # Undefined /\ dist[target] < Inf

\* one iteration of  while (levels.length && hop < maxHops)
FbLevel ==
  /\ fb.pc = "loop"
  /\ fb.hop < maxHops
  /\ LET st == FbVisitLevel([fb EXCEPT !.nextLevel = <<>>], 1)
     IN IF TargetReached(st.dist)
          THEN fb' = [st EXCEPT !.pc = "check"]
          ELSE fb' = [st EXCEPT !.level = st.nextLevel, !.hop = @ + 1]
  /\ UNCHANGED <<solvers, build, val, call, est, mon>>

FbLoopExit ==
  /\ fb.pc = "loop"
  /\ fb.hop >= maxHops
  /\ fb' = [fb EXCEPT !.pc = "check"]
  /\ UNCHANGED <<solvers, build, val, call, est, mon>>

\* while (cur !== null) { path.unshift(cur); cur = prev[cur]; }
\* An undefined cur is never null: the loop does not end.
RECURSIVE FbPath(_, _, _)
FbPath(prev, cur, path) ==
  IF cur = NoPrev THEN [ended |-> TRUE, path |-> path]
  ELSE IF cur = Undefined THEN [ended |-> FALSE, path |-> path]
  ELSE FbPath(prev, PrevAt(prev, cur), <<cur>> \o path)

FbSteps(dist, path) ==
  [i \in 1..(Len(path) - 1) |->
     LET edge == Neighbors(path[i])[FindEdge(path[i], path[i + 1])]
     IN [from |-> path[i], to |-> path[i + 1],
         weight |-> dist[path[i + 1]] - dist[path[i]],
         kind |-> edge.kind, edge |-> edge]]

\* the check for no route, the backtracking and the return
FbBacktrack ==
  /\ fb.pc = "check"
  /\ IF DistAt(fb.dist, target) = Inf
       THEN fb' = [fb EXCEPT !.pc = "threw"]
       ELSE LET walk == FbPath(fb.prev, target, <<>>)
            IN IF ~walk.ended
                 THEN fb' = [fb EXCEPT !.pc = "diverged"]
                 ELSE fb' = [fb EXCEPT !.pc = "returned",
                               !.result = [kind |-> "route",
                                           path |-> walk.path,
                                           totalWeight |-> fb.dist[target],
                                           estimatedOutput |-> ExpNeg(fb.dist[target]),
                                           steps |-> FbSteps(fb.dist, walk.path)]]
  /\ UNCHANGED <<solvers, build, val, call, est, mon>>

InitRouter ==
  \E size \in Sizes :
  \E chosen \in EdgeSets :
  \E q \in Queries(size) :
  \E hops \in 1..MaxHopsBound :
     /\ size < NActive => chosen = {}
     /\ graph = GraphOf(chosen, size)
     /\ n = size
     /\ source = q[1]
     /\ target = q[2]
     /\ inputAmount = AmtScale
     /\ maxHops = hops
     /\ cl = Idle /\ cpc = "off" /\ cres = NoResult
     /\ ps = Idle /\ ppc = "off" /\ pres = NoResult
     /\ fb = FbInit(q[1], size)
     /\ build = Idle /\ val = Idle /\ call = Idle /\ est = Idle /\ mon = Idle

NextRouter ==
  \/ FbLevel
  \/ FbLoopExit
  \/ FbBacktrack

SpecRouter == InitRouter /\ [][NextRouter]_vars

----------------------------------------------------------------------------
(* TransactionMonitor.monitorTransaction (transaction-monitor.ts), one     *)
(* call.  The clock counts milliseconds and advances by the polling        *)
(* interval.  A poll is a run of the interval callback, from its call of   *)
(* getTransactionStatus to the settlement of that promise; the status it   *)
(* gets is the transaction's status at the settlement.                     *)

POLL_INTERVAL_MS == 2000
TIMEOUT_MS == 300000

\* the polls in flight at one time
MaxInFlight == 2

\* what Blockscout knows of the transaction; "missing": getTxStatus gives null
TxStatuses == {"missing", "pending", "confirmed", "failed"}

Final(status) == status \in {"confirmed", "failed"}

\* monitorTransaction(txHash, onUpdate, onComplete, onError): setInterval and
\* setTimeout; updates, completes and errors are the calls of the callbacks
MonitorCall(tx) ==
  [pc |-> "monitoring", tx |-> tx, now |-> 0, interval |-> TRUE, timeout |-> TRUE,
   polls |-> 0, lastUpdate |-> "none", completes |-> 0, errors |-> 0]

\* the polling interval elapses: the interval callback, if not cleared,
\* starts a poll.  The clock stops at the timeout's due time.
MonitorTick ==
  /\ mon.pc = "monitoring"
  /\ mon.now < TIMEOUT_MS
  /\ mon.interval => mon.polls < MaxInFlight
  /\ mon' = [mon EXCEPT !.now = @ + POLL_INTERVAL_MS,
                        !.polls = IF mon.interval THEN @ + 1 ELSE @]
  /\ UNCHANGED <<solvers, fb, build, val, call, est>>

\* the transaction is mined, or becomes known to the explorer
TxProgress ==
  /\ mon.pc = "monitoring"
  /\ \E next \in TxStatuses :
        /\ \/ mon.tx = "missing" /\ next = "pending"
           \/ mon.tx = "pending" /\ Final(next)
        /\ mon' = [mon EXCEPT !.tx = next]
  /\ UNCHANGED <<solvers, fb, build, val, call, est>>

\* the rest of the interval callback once getTransactionStatus has returned
\* a status
PollReturned(m, status) ==
  LET updated == [m EXCEPT !.polls = @ - 1, !.lastUpdate = status]
  IN IF Final(status)
       THEN [updated EXCEPT !.interval = FALSE, !.completes = @ + 1]
       ELSE updated

\* the catch block of the interval callback
PollThrew(m) == [m EXCEPT !.polls = @ - 1, !.interval = FALSE, !.errors = @ + 1]

\* a poll in flight settles: getTransactionStatus returns the status, or
\* throws (transaction not found, or a failed request)
PollSettle ==
  /\ mon.pc = "monitoring"
  /\ mon.polls > 0
  /\ \E ok \in BOOLEAN :
        mon' = IF ok /\ mon.tx # "missing" THEN PollReturned(mon, mon.tx)
               ELSE PollThrew(mon)
  /\ UNCHANGED <<solvers, fb, build, val, call, est>>

\* the callback of setTimeout; of the two timers due at the same time
\* either runs first
MonitorTimeout ==
  /\ mon.pc = "monitoring"
  /\ mon.timeout
  /\ mon.now + POLL_INTERVAL_MS >= TIMEOUT_MS
  /\ mon' = [mon EXCEPT !.now = TIMEOUT_MS, !.timeout = FALSE, !.interval = FALSE,
                        !.errors = @ + 1]
  /\ UNCHANGED <<solvers, fb, build, val, call, est>>

InitMonitor ==
  /\ SolversOff
  /\ fb = Idle /\ build = Idle /\ val = Idle /\ call = Idle /\ est = Idle
  /\ \E tx \in TxStatuses : mon = MonitorCall(tx)

NextMonitor ==
  \/ MonitorTick
  \/ TxProgress
  \/ PollSettle
  \/ MonitorTimeout

SpecMonitor == InitMonitor /\ [][NextMonitor]_vars

----------------------------------------------------------------------------
(* POST /api/route/estimate (app/api/route/estimate/route.ts).  Requests   *)
(* are served one after the other; the graph is the one getOrBuildGraph    *)
(* returns.  The clock counts milliseconds and advances between requests.  *)
(* A cache key `${source}-${target}-${inputAmount}` is the triple of its   *)
(* parts.                                                                  *)

ROUTE_CACHE_TTL == 300000

MaxRequests == 2
MaxEstimateEdges == 2
ClockStep == 150000
MaxClock == 450000

NoResponse == [status |-> 0]

\* cacheKey
CacheKey(src, tgt, amount) == <<src, tgt, amount>>

\* routeCache.get(cacheKey): the entry, or an entry that is never fresh
NoEntry == [key |-> <<>>, result |-> NoResponse, timestamp |-> 0 - ROUTE_CACHE_TTL]

RouteCacheGet(cache, key) ==
  IF \E e \in cache : e.key = key THEN CHOOSE e \in cache : e.key = key ELSE NoEntry

\* routeCache.set(cacheKey, { result, timestamp })
RouteCacheSet(cache, key, result, timestamp) ==
  {e \in cache : e.key # key} \cup {[key |-> key, result |-> result, timestamp |-> timestamp]}

\* cached && (Date.now() - cached.timestamp) < ROUTE_CACHE_TTL
Fresh(cached, now) == cached # NoEntry /\ now - cached.timestamp < ROUTE_CACHE_TTL

\* algorithm === 'classic' ? 'classic' : 'psb'
UseAlgorithm(algorithm) == IF algorithm = "classic" THEN "classic" ELSE "psb"

\* the request is answered and the handler is ready for the next one
Answered(e, response) ==
  [e EXCEPT !.pc = "idle", !.served = @ + 1, !.response = response]

\* the solvers' variables when the handler calls classicDijkstra
CallClassic(src, tgt, amount) ==
  /\ source' = src /\ target' = tgt /\ inputAmount' = amount /\ maxHops' = 4
  /\ cl' = ClassicInit(src, n, amount) /\ cpc' = "loop" /\ cres' = NoResult

\* the solvers' variables when the handler calls psbDijkstra
CallPsb(src, tgt, amount) ==
  /\ source' = src /\ target' = tgt /\ inputAmount' = amount /\ maxHops' = 4
  /\ ps' = [PsbInit(src, n, amount) EXCEPT !.stack = <<Frame(MaxLevel(n), Inf, <<src>>)>>]
  /\ ppc' = "run" /\ pres' = NoResult

\* a request arrives: the 400 answer, the answer from the route cache, the
\* 404 answers, or the call of the solver; token 0 is a missing token
EstimatePost ==
  /\ est.pc = "idle"
  /\ est.served < MaxRequests
  /\ \E src \in {0, 1}, tgt \in {NActive - 1, NActive, NActive + 1},
        amount \in {AmtScale}, algorithm \in {"classic", "psb", "none"} :
       LET request == [source |-> src, target |-> tgt, amount |-> amount,
                       algorithm |-> algorithm]
           asked == [est EXCEPT !.request = request]
           cached == RouteCacheGet(est.cache, CacheKey(src, tgt, amount))
       IN IF src = 0 \/ tgt = 0
            THEN est' = Answered(asked, [status |-> 400])
                 /\ UNCHANGED solvers
          ELSE IF Fresh(cached, est.now)
            THEN est' = Answered(asked, [cached.result EXCEPT !.fromCache = TRUE])
                 /\ UNCHANGED solvers
          ELSE IF src \notin Keys \/ tgt \notin Keys
            THEN est' = Answered(asked, [status |-> 404])
                 /\ UNCHANGED solvers
          ELSE /\ est' = [asked EXCEPT !.pc = "solve",
                                       !.useAlgorithm = UseAlgorithm(algorithm),
                                       !.solver = UseAlgorithm(algorithm)]
               /\ IF UseAlgorithm(algorithm) = "classic"
                    THEN CallClassic(src, tgt, amount) /\ UNCHANGED <<ps, ppc, pres>>
                    ELSE CallPsb(src, tgt, amount) /\ UNCHANGED <<cl, cpc, cres>>
               /\ UNCHANGED <<graph, n>>
  /\ UNCHANGED <<fb, build, val, call, mon>>

\* catch (psbError): classicDijkstra is called instead
EstimateFallback ==
  /\ est.pc = "solve"
  /\ est.solver = "psb"
  /\ ppc = "threw"
  /\ est' = [est EXCEPT !.solver = "classic"]
  /\ CallClassic(source, target, inputAmount)
  /\ UNCHANGED <<graph, n, ps, ppc, pres>>
  /\ UNCHANGED <<fb, build, val, call, mon>>

\* step.details of a step the solvers return: the edge and the two amounts.
\* A unit of the solvers' gas term is 693,147 units of gas, beyond every
\* threshold of the validator at any price.
DetailsOf(step) ==
  Details(step.kind, step.edge.rateN, step.edge.rateD, step.edge.liquidity,
          1000 * step.edge.gas, 0)

DetailsOfAll(steps) == [i \in 1..Len(steps) |-> DetailsOf(steps[i])]

\* the solver the handler waits for has ended
SolverEnded ==
  IF est.solver = "classic" THEN cpc \in {"returned", "threw"} ELSE ppc = "returned"

SolverResult == IF est.solver = "classic" THEN cres ELSE pres

\* catch (algoError): the 404 answer; else validateRoute is called with
\* result.route, inputAmount, ethPrice and the three limits
EstimateSolved ==
  /\ est.pc = "solve"
  /\ SolverEnded
  /\ IF SolverResult.kind = "error"
       THEN /\ est' = Answered(est, [status |-> 404])
            /\ val' = val
       ELSE /\ est' = [est EXCEPT !.pc = "validate", !.route = SolverResult]
            /\ val' = ValidateCall(DetailsOfAll(SolverResult.steps), inputAmount,
                                   2000, 50, 100, 600000)
  /\ UNCHANGED <<solvers, fb, build, call, mon>>

\* the response, routeCache.set and the answer
EstimateRespond ==
  /\ est.pc = "validate"
  /\ val.pc = "done"
  /\ LET response == [status |-> 200,
                      algorithm |-> est.useAlgorithm,
                      inputAmount |-> inputAmount,
                      route |-> [path |-> est.route.path,
                                 estimatedOutput |-> est.route.estimatedOutput,
                                 steps |-> est.route.steps],
                      metrics |-> est.solver,
                      validation |-> val.result,
                      fromCache |-> FALSE]
     IN est' = [Answered(est, response) EXCEPT
                  !.cache = RouteCacheSet(@, CacheKey(source, target, inputAmount),
                                          response, est.now)]
  /\ val' = Idle
  /\ UNCHANGED <<solvers, fb, build, call, mon>>

\* time passes between two requests
EstimateTick ==
  /\ est.pc = "idle"
  /\ est.now + ClockStep <= MaxClock
  /\ est' = [est EXCEPT !.now = @ + ClockStep]
  /\ UNCHANGED <<solvers, fb, build, val, call, mon>>

NoRequest == [source |-> 0, target |-> 0, amount |-> 0, algorithm |-> "none"]

EstimateGraphs ==
  {GraphOf(chosen, NActive) : chosen \in {c \in EdgeSets : Cardinality(c) <= MaxEstimateEdges}}

InitEstimate ==
  /\ graph \in EstimateGraphs
  /\ n = NActive
  /\ source = 1 /\ target = 1 /\ inputAmount = 0 /\ maxHops = 4
  /\ cl = Idle /\ cpc = "off" /\ cres = NoResult
  /\ ps = Idle /\ ppc = "off" /\ pres = NoResult
  /\ fb = Idle /\ build = Idle /\ val = Idle /\ call = Idle /\ mon = Idle
  /\ est = [pc |-> "idle", request |-> NoRequest, useAlgorithm |-> "psb",
            solver |-> "psb", route |-> NoResult, cache |-> {}, now |-> 0,
            served |-> 0, response |-> NoResponse]

NextEstimate ==
  \/ EstimatePost
  \/ ClassicLoop
  \/ ClassicLoopExit
  \/ ClassicCheck
  \/ ClassicWalk
  \/ BMSSPEnter
  \/ BMSSPIterate
  \/ BMSSPResume
  \/ PsbCheck
  \/ PsbWalk
  \/ EstimateFallback
  \/ EstimateSolved
  \/ ValidateStep
  \/ ValidateReturn
  \/ EstimateRespond
  \/ EstimateTick

SpecEstimate == InitEstimate /\ [][NextEstimate]_vars

----------------------------------------------------------------------------
(* Properties *)

ClassicReturned == cpc = "returned"
PsbReturned == ppc = "returned"

NoRepeat(seq) == \A i, j \in 1..Len(seq) : i # j => seq[i] # seq[j]

\* C1 (P5, hop cap): a route returned by classicDijkstra or by psbDijkstra has
\* at most maxHops steps, its path at most maxHops + 1 vertices.
C1_HopCap ==
  /\ ClassicReturned => Len(cres.steps) <= maxHops /\ Len(cres.path) <= maxHops + 1
  /\ PsbReturned => Len(pres.steps) <= maxHops /\ Len(pres.path) <= maxHops + 1

\* C2 (P10, no cycles): the walk over prev from target never revisits a
\* vertex, and a returned path visits each vertex at most once.
C2_NoCycle ==
  /\ cpc # "diverged" /\ ppc # "diverged"
  /\ ClassicReturned => NoRepeat(cres.path)
  /\ PsbReturned => NoRepeat(pres.path)

AllEdges == UNION {Range(graph[v]) : v \in Keys}

\* no pool with reserve_base < 1
PoolsAtLeastOne ==
  \A e \in AllEdges : HasLiquidity(e) => e.liquidity.reserveBase >= AmtScale

\* C3 (P4, agreement): on a graph of at most 50 vertices without a pool of
\* reserve_base < 1 the two solvers both fail with no route, or both return
\* the same path and the same estimated output.
C3_Agreement ==
  (n <= 50 /\ PoolsAtLeastOne /\ cpc \in ClassicFinal /\ ppc \in PsbFinal) =>
     \/ cpc = "threw" /\ ppc = "threw"
     \/ /\ ClassicReturned /\ PsbReturned
        /\ cres.path = pres.path
        /\ cres.estimatedOutput = pres.estimatedOutput

\* every edge is a swap with a nominal rate in (0, 1] and no pool
NominalGraph ==
  \A e \in AllEdges :
     /\ e.kind = "swap" /\ ~HasLiquidity(e)
     /\ 0 < e.rateN /\ e.rateN <= e.rateD /\ e.gas >= 0

MinOf(S) == IF S = {} THEN Inf ELSE CHOOSE x \in S : \A y \in S : x <= y

\* the least weight of a path from source to v with at most h edges
RECURSIVE BestWithin(_, _)
BestWithin(h, v) ==
  IF h = 0 THEN (IF v = source THEN 0 ELSE Inf)
  ELSE MinOf({BestWithin(h - 1, v)} \cup
             {Plus(BestWithin(h - 1, u), NominalWeight(graph[u][i])) :
                <<u, i>> \in {<<x, j>> \in Keys \X (1..MaxEdges) :
                                j <= Len(graph[x]) /\ graph[x][j].target = v}})

\* C4 (optimal route): on a graph of nominal rates in (0, 1], when a path from
\* source to target with at most maxHops edges exists, classicDijkstra returns
\* a route and its total weight is the least among those paths.
C4_ClassicOptimal ==
  (/\ NominalGraph /\ source \in Keys /\ target \in Keys
   /\ cpc \in ClassicFinal
   /\ BestWithin(maxHops, target) < Inf) =>
     ClassicReturned /\ cres.totalWeight = BestWithin(maxHops, target)

\* C5 (scenario 5): on the chain of six vertices with rate 0.99 on each edge,
\* the query from the first to the last vertex fails with no route at
\* maxHops = 3 and returns the path over all six vertices at
\* maxHops = 5, for classicDijkstra and for psbDijkstra.
C5_Chain ==
  (graph = ChainGraph /\ source = 1 /\ target = ChainLength) =>
     /\ (maxHops = 3 /\ cpc \in ClassicFinal) => cpc = "threw"
     /\ (maxHops = 3 /\ ppc \in PsbFinal) => ppc = "threw"
     /\ (maxHops = ChainLength - 1 /\ cpc \in ClassicFinal) =>
           ClassicReturned /\ cres.path = [i \in 1..ChainLength |-> i]
     /\ (maxHops = ChainLength - 1 /\ ppc \in PsbFinal) =>
           PsbReturned /\ pres.path = [i \in 1..ChainLength |-> i]

\* C6 (routing errors): with source or target not a key of the graph both
\* solvers end with an error and never return a route.
C6_UnknownKey ==
  (source \notin Keys \/ target \notin Keys) =>
     /\ cpc \in ClassicFinal => cpc = "threw"
     /\ ppc \in PsbFinal => ppc = "threw"

RECURSIVE SumWeights(_, _)
SumWeights(steps, i) ==
  IF i > Len(steps) THEN 0 ELSE Plus(steps[i].weight, SumWeights(steps, i + 1))

\* totalWeight is the sum of the step weights, each the edge cost at the
\* amount carried into the step
Additive(route) ==
  /\ route.totalWeight = SumWeights(route.steps, 1)
  /\ \A i \in 1..Len(route.steps) :
        route.steps[i].weight =
          calculateEdgeWeight(route.steps[i].edge, route.steps[i].inputAmount).weight

\* C8 (P2, additivity): the totalWeight of a returned route is the sum of the
\* weights of its steps, each step weight the edge cost at the amount carried
\* into the step, pool-backed swap edges included.  Stated of the queries
\* whose source and target are keys of the graph.
C8_Additivity ==
  (source \in Keys /\ target \in Keys) =>
     /\ ClassicReturned => Additive(cres)
     /\ PsbReturned => Additive(pres)

\* the amount that comes out when amount is pushed through the steps from i on
RECURSIVE PushThrough(_, _, _)
PushThrough(amount, steps, i) ==
  IF i > Len(steps) THEN amount
  ELSE PushThrough(calculateEdgeWeight(steps[i].edge, amount).outputAmount, steps, i + 1)

OutputOfSteps(route) ==
  /\ route.estimatedOutput = PushThrough(inputAmount, route.steps, 1)
  /\ \A i \in 2..Len(route.steps) :
        route.steps[i].inputAmount = route.steps[i - 1].outputAmount
  /\ inputAmount = 0 => route.estimatedOutput = 0

\* C9 (P3, output): the estimatedOutput of a returned route is the input
\* amount pushed through its steps in order, each step taking in what the step
\* before it put out; an input amount of 0 gives an estimated output of 0.
C9_Output ==
  /\ ClassicReturned => OutputOfSteps(cres)
  /\ PsbReturned => OutputOfSteps(pres)

\* C10 (P1, non-negativity): the weight the edge-cost code computes for an edge
\* at a non-negative carried amount is >= 0, unless it is the sentinel weight
\* of an unusable edge.  Stated of the edges classicDijkstra has relaxed, at
\* the amount carried into them.
C10_NonNegative ==
  \A u \in cl.visited :
    \A e \in Range(Neighbors(u)) :
       cl.tradeAmounts[u] >= 0 =>
         LET w == calculateEdgeWeight(e, cl.tradeAmounts[u]).weight
         IN w >= 0 \/ w = SentinelWeight

TargetAtInfinity == target \in DOMAIN cl.dist /\ cl.dist[target] = Inf

RECURSIVE EdgesLeaving(_)
EdgesLeaving(S) ==
  IF S = {} THEN 0
  ELSE LET u == CHOOSE x \in S : TRUE
       IN Len(Neighbors(u)) + EdgesLeaving(S \ {u})

\* what the main loop has left to do: the entries of the heap, and the
\* entries the vertices not yet visited can still add to it
LoopMeasure == Len(cl.pq) + EdgesLeaving(Labelled \ cl.visited)

\* C7 (termination): the main loop of classicDijkstra ends: every iteration
\* that stays in the loop lowers LoopMeasure, a natural number, and the loop
\* is left with the heap empty or target at its top; when dist[target] is
\* still Infinity at that point the call ends with the no-route error and
\* returns no route.
C7_ClassicTerminates ==
  /\ [][(cpc = "loop" /\ cpc' = "loop") => LoopMeasure' < LoopMeasure]_<<cl, cpc>>
  /\ [][(cpc = "loop" /\ cpc' # "loop") =>
          (cl.pq = <<>> \/ cl.pq[1].token = target)]_<<cl, cpc>>
  /\ [](LoopMeasure >= 0)
  /\ []((cpc \notin {"loop", "check"} /\ TargetAtInfinity) => cpc = "threw")

\* the loop has run over several vertices, has ended with target not reached
\* and the call has thrown
C7_Witness ==
  /\ cpc = "threw" /\ target \in Keys /\ TargetAtInfinity
  /\ Cardinality(cl.visited) >= 3 /\ cl.pq = <<>>

\* the edge-cost code gives the edge the sentinel weight at this amount
Unusable(edge, amount) == calculateEdgeWeight(edge, amount).weight = SentinelWeight

\* the edges u -> v a solver's records may have been set through
SetThrough(prev, v) ==
  {e \in Range(Neighbors(prev[v])) : e.target = v}

\* no vertex has its records set through an unusable edge
NeverThroughUnusable(st) ==
  \A v \in Keys :
     st.prev[v] # NoPrev =>
        \E e \in SetThrough(st.prev, v) :
           ~Unusable(e, st.tradeAmounts[st.prev[v]])

\* C11 (unusable edges): an edge with no usable pool result and no nominal
\* rate is never relaxed into: no vertex has dist, prev or amount set through
\* it, and no returned route has it as a step.
C11_SentinelNeverRelaxed ==
  /\ NeverThroughUnusable(cl)
  /\ NeverThroughUnusable(ps)
  /\ ClassicReturned =>
        \A i \in 1..Len(cres.steps) :
           ~Unusable(cres.steps[i].edge, cres.steps[i].inputAmount)
  /\ PsbReturned =>
        \A i \in 1..Len(pres.steps) :
           ~Unusable(pres.steps[i].edge, pres.steps[i].inputAmount)

\* the path runs from source to target and the steps are its consecutive pairs
WellShaped(route) ==
  /\ Len(route.path) >= 1
  /\ route.path[1] = source
  /\ route.path[Len(route.path)] = target
  /\ Len(route.steps) = Len(route.path) - 1
  /\ \A i \in 1..Len(route.steps) :
        /\ i + 1 <= Len(route.path)
        /\ route.steps[i].from = route.path[i]
        /\ route.steps[i].to = route.path[i + 1]

\* C12 (RouteResult): in a returned route the path starts with source and
\* ends with target, there is one step less than there are vertices on the
\* path, and step i goes from path[i] to path[i+1].
C12_RouteShape ==
  /\ ClassicReturned => WellShaped(cres)
  /\ PsbReturned => WellShaped(pres)

EdgeList(g) == [i \in 1..Len(g) |-> g[i].edges]

\* C13 (P6, builders): a graph returned by buildRouteGraph or by
\* buildLargeScaleGraph has no self-loop, every edge target is a key of the
\* graph, and no key appears twice.
C13_BuilderInvariants ==
  build.pc = "done" =>
    /\ \A i \in 1..Len(build.graph) :
         \A e \in Range(build.graph[i].edges) :
            /\ e.target # build.graph[i].key
            /\ HasKey(build.graph, e.target)
    /\ NoRepeat(ObjectKeys(build.graph))

\* buildRouteGraph returned a graph with swap and bridge edges for a list
\* in which one key is listed twice
C13_Witness ==
  /\ build.pc = "done"
  /\ ~NoRepeat([i \in 1..Len(build.vertices) |-> build.vertices[i].key])
  /\ \E i \in 1..Len(build.graph) :
       \E e \in Range(build.graph[i].edges) : e.kind = "swap"
  /\ \E i \in 1..Len(build.graph) :
       \E e \in Range(build.graph[i].edges) : e.kind = "bridge"

OnlyEdge(from, to) == Cardinality({i \in 1..Len(Neighbors(from)) : Neighbors(from)[i].target = to}) = 1

BridgeStepsExact(route) ==
  \A i \in 1..Len(route.steps) :
     LET step == route.steps[i] IN
     (step.kind = "bridge" /\ OnlyEdge(step.from, step.to) /\ step.inputAmount >= 0) =>
        step.outputAmount = (step.inputAmount * (FeeDen - step.edge.bridgeFee)) \div FeeDen

\* C14 (bridge edge): along a returned route, the amount carried out of a
\* bridge edge of fee fraction f is the amount carried into it times (1 - f),
\* also when f = 0.
C14_BridgeOutput ==
  /\ ClassicReturned => BridgeStepsExact(cres)
  /\ PsbReturned => BridgeStepsExact(pres)

StepsOf(v) == {i \in 0..(Len(v.steps) - 1) : v.steps[i + 1].present}

HasFailure(result, index, severity, reason, recoverable) ==
  \E i \in 1..Len(result.failures) :
     result.failures[i] = Failure(index, severity, reason, recoverable)

HasWarning(result, index, type) ==
  \E i \in 1..Len(result.warnings) :
     result.warnings[i].step = index /\ result.warnings[i].type = type

\* C15 (pool unavailable): for every step whose edge carries neither a
\* liquidity pool nor a nominal rate, validateRoute records a critical,
\* non-recoverable pool_unavailable failure, and the route is not valid.
C15_PoolUnavailable ==
  val.pc = "done" =>
    \A i \in StepsOf(val) :
       (~HasLiquidity(val.steps[i + 1]) /\ ~HasRate(val.steps[i + 1])) =>
          /\ HasFailure(val.result, i, "critical", "pool_unavailable", FALSE)
          /\ ~val.result.isValid

\* C16 (verdict): validateRoute returns isValid = true exactly when no failure
\* is critical; failures of severity high or medium and warnings leave a
\* route valid.
C16_ValidIffNoCritical ==
  val.pc = "done" =>
    (val.result.isValid <=>
       \A i \in 1..Len(val.result.failures) : val.result.failures[i].severity # "critical")

\* a valid route with a high and a medium failure and a warning
C16_Witness ==
  /\ val.pc = "done"
  /\ val.result.isValid
  /\ \E i \in 1..Len(val.result.failures) : val.result.failures[i].severity = "high"
  /\ \E i \in 1..Len(val.result.failures) : val.result.failures[i].severity = "medium"
  /\ Len(val.result.warnings) > 0

\* C17 (gas): for each step, a gas_too_high failure (medium, recoverable) is
\* recorded exactly when the step's gas in USD exceeds max_gas_usd, and
\* otherwise a high_gas warning exactly when it is at least half of
\* max_gas_usd.
C17_GasThresholds ==
  val.pc = "done" =>
    \A i \in StepsOf(val) :
       LET gasUSD == val.steps[i + 1].gas * val.ethPriceUSD IN
       /\ HasFailure(val.result, i, "medium", "gas_too_high", TRUE)
            <=> gasUSD > val.maxGasUSD * GasDen
       /\ gasUSD <= val.maxGasUSD * GasDen =>
            (HasWarning(val.result, i, "high_gas") <=> 2 * gasUSD >= val.maxGasUSD * GasDen)

\* C18 (P6, monotone AMM): for a pool of any of the three families and
\* 0 < dx1 < dx2 < 0.9 * reserve_base, the output is defined for both amounts
\* and output(dx1) / dx1 >= output(dx2) / dx2.
C18_MonotoneAmm ==
  (call.pc = "returned" /\ 0 < call.dx1 /\ call.dx1 < call.dx2
     /\ 10 * call.dx2 < 9 * call.pool.reserveBase) =>
       /\ call.out1.ok
       /\ call.out2.ok
       /\ FracLeq(call.out2.effectiveRate, call.out1.effectiveRate)

SpotAmount(dx, pool) == Frac(dx * pool.reserveQuote, pool.reserveBase)

\* C19 (below spot): for each of the three AMM functions and every accepted
\* input dx > 0, the output amount is strictly less than the spot-price
\* amount dx * (reserve_out / reserve_in).
C19_BelowSpot ==
  call.pc = "returned" =>
    /\ call.out1.ok => FracLess(call.out1.outputAmount, SpotAmount(call.dx1, call.pool))
    /\ call.out2.ok => FracLess(call.out2.outputAmount, SpotAmount(call.dx2, call.pool))

AllRated == \A e \in AllEdges : HasRate(e)

\* the least sum of -ln(rate) of a path from source to v with at most h edges
RECURSIVE BestRateWithin(_, _)
BestRateWithin(h, v) ==
  IF h = 0 THEN (IF v = source THEN 0 ELSE Inf)
  ELSE MinOf({BestRateWithin(h - 1, v)} \cup
             {Plus(BestRateWithin(h - 1, u), NegLog(graph[u][i].rateN, graph[u][i].rateD)) :
                <<u, i>> \in {<<x, j>> \in Keys \X (1..MaxEdges) :
                                j <= Len(graph[x]) /\ graph[x][j].target = v}})

\* C20 (ALGORITHMS.md, Classic): whenever findBestRoute returns, the returned
\* path has the least sum of -ln(rate) among the paths from source to target
\* of at most maxHops edges.  Stated of the graphs whose edges all carry a rate.
C20_FindBestRouteOptimal ==
  (fb.pc = "returned" /\ AllRated) =>
     fb.result.totalWeight = BestRateWithin(maxHops, target)

\* every vertex with a predecessor was relaxed from a visited vertex, one hop
\* further, over an edge evaluated at the amount carried to the predecessor
PrevConsistent(st) ==
  \A v \in DOMAIN st.prev :
     st.prev[v] # NoPrev =>
       LET u == st.prev[v] IN
       /\ u \in st.visited
       /\ st.hopCount[v] = st.hopCount[u] + 1
       /\ st.hopCount[v] <= maxHops
       /\ \E e \in Range(Neighbors(u)) :
            /\ e.target = v
            /\ st.dist[v] = Plus(st.dist[u], calculateEdgeWeight(e, st.tradeAmounts[u]).weight)
            /\ st.tradeAmounts[v] = calculateEdgeWeight(e, st.tradeAmounts[u]).outputAmount

VisitedFrozen(old, new) ==
  \A v \in old.visited :
     /\ new.dist[v] = old.dist[v]
     /\ new.prev[v] = old.prev[v]
     /\ new.hopCount[v] = old.hopCount[v]
     /\ new.tradeAmounts[v] = old.tradeAmounts[v]

\* C21 (classicDijkstra invariants): a visited vertex keeps its dist, prev,
\* hopCount and carried amount; every vertex v with prev[v] = u has u visited,
\* hopCount[v] = hopCount[u] + 1 <= maxHops, dist[v] = dist[u] + the weight of
\* an edge u -> v at the amount carried to u, and carries that edge's output.
C21_ClassicInvariants ==
  /\ [](PrevConsistent(cl))
  /\ [][VisitedFrozen(cl, cl')]_cl

\* a vertex two hops from the source, relaxed from a visited vertex whose
\* dist was lowered while it waited in the heap
C21_Witness ==
  \E v \in DOMAIN cl.prev :
     /\ cl.prev[v] # NoPrev
     /\ cl.hopCount[v] = 2
     /\ cl.prev[v] \in cl.visited
     /\ cl.prev[cl.prev[v]] # NoPrev
     /\ Cardinality(cl.visited) >= 3

CompletedFrozen(old, new) ==
  \A v \in old.completed :
     /\ new.dist[v] = old.dist[v]
     /\ new.prev[v] = old.prev[v]
     /\ new.tradeAmounts[v] = old.tradeAmounts[v]

\* C22 (psbDijkstra, completion is permanent): on a graph whose edge weights
\* are all non-negative (nominal rates in (0, 1]), a vertex in the completed
\* set keeps its dist, prev and carried amount through every later step.
C22_CompletionPermanent == [][NominalGraph => CompletedFrozen(ps, ps')]_ps

\* BMSSP is about to call findPivots(B, S) on the top frame
PendingFindPivots ==
  /\ ppc = "run"
  /\ Len(ps.stack) > 0
  /\ Top.phase = "enter"
  /\ ~(Top.level = 0 \/ Len(Top.S) = 0)

\* the call findPivots(B, S) the top frame is about to make
PendingPivots == findPivots(Top.B, Top.S, ps)

\* C23 (findPivots, frontier reduction): every call of findPivots(B, S) of a
\* psbDijkstra run returns pivots and W with |pivots| * k <= |W|; the early
\* return gives pivots = S.
C23_PivotBound ==
  PendingFindPivots =>
     /\ Len(PendingPivots.pivots) * k <= Len(PendingPivots.completedVertices)
     /\ PendingPivots.early => PendingPivots.pivots = Top.S

\* a nested call of findPivots that takes the normal return with a pivot
C23_Witness ==
  /\ PendingFindPivots
  /\ Len(ps.stack) >= 2
  /\ ~PendingPivots.early
  /\ Len(PendingPivots.pivots) >= 1
  /\ Len(PendingPivots.completedVertices) >= 2

\* the edge a step carries is one that gives dist and the carried amount of
\* the step's end vertex from those of its start vertex
StepKept(st, step) ==
  LET c == calculateEdgeWeight(step.edge, st.tradeAmounts[step.from])
  IN /\ st.dist[step.to] = Plus(st.dist[step.from], c.weight)
     /\ st.tradeAmounts[step.to] = c.outputAmount

\* C24 (parallel edges): every step of a route returned by classicDijkstra or
\* psbDijkstra carries the edge kept at relaxation, the one whose weight and
\* output produced dist and the carried amount of the step's end vertex.
C24_StepsCarryKeptEdge ==
  /\ cpc = "returned" => \A i \in 1..Len(cres.steps) : StepKept(cl, cres.steps[i])
  /\ ppc = "returned" => \A i \in 1..Len(pres.steps) : StepKept(ps, pres.steps[i])

\* C27 (monitorTransaction, completion is final): once onComplete has been
\* invoked, onError is not invoked afterwards, not by the timeout either.
C27_NoErrorAfterComplete ==
  [][mon.pc = "monitoring" /\ mon.completes > 0 => mon'.errors = mon.errors]_mon

\* C28 (monitorTransaction, one completion): onComplete is invoked at most
\* once for one call, also when several polls are in flight at a time.
C28_CompleteAtMostOnce == mon.pc = "monitoring" => mon.completes <= 1

\* C25 (validateRoute carries the solver's amounts): while validateRoute runs
\* on a route classicDijkstra or psbDijkstra has returned, with the same
\* input amount, its running amount after a step is the output amount the
\* solver recorded for that step, and at the end it is the route's
\* estimatedOutput.
C25_ValidatorCarriesSolverAmounts ==
  est.pc = "validate" =>
     /\ val.index >= 1 => val.currentAmount = est.route.steps[val.index].outputAmount
     /\ val.pc = "done" => val.currentAmount = est.route.estimatedOutput

\* C29 (route estimate endpoint): a successful response, computed or served
\* from the route cache, holds the result of the solver the request asked
\* for: classicDijkstra for algorithm 'classic', psbDijkstra otherwise.
C29_RouteByRequestedAlgorithm ==
  (est.pc = "idle" /\ est.response.status = 200) =>
     est.response.metrics = UseAlgorithm(est.request.algorithm)

\* C26 (psbDijkstra terminates): the recursion of BMSSP is no deeper than
\* maxLevel + 1 calls, no loop of BMSSP runs more than 2^t times, and the
\* backward walk over prev ends: it never puts more vertices on the path
\* than the records have keys.
C26_PsbTerminates ==
  /\ ppc # "diverged"
  /\ ppc = "run" =>
       /\ Len(ps.stack) <= MaxLevel(n) + 1
       /\ \A d \in 1..Len(ps.stack) : ps.stack[d].i <= Pow2(t)

\* the guard of BMSSPEnter
EnterPending == ppc = "run" /\ Len(ps.stack) > 0 /\ Top.phase = "enter"

\* weak fairness of BMSSPEnter, written with its guard as the enabling
\* condition
BMSSPEnterFair == []<>(~EnterPending) \/ []<><<BMSSPEnter>>_vars

\* classicDijkstra and then psbDijkstra on the chain, each run to its end:
\* the code is sequential, a step that can be taken is taken
SpecChainFair ==
  /\ InitChain /\ [][Next]_vars
  /\ WF_vars(ClassicLoop) /\ WF_vars(ClassicLoopExit)
  /\ WF_vars(ClassicCheck) /\ WF_vars(ClassicWalk)
  /\ WF_vars(PsbCall) /\ BMSSPEnterFair
  /\ WF_vars(BMSSPIterate) /\ WF_vars(BMSSPResume)
  /\ WF_vars(PsbCheck) /\ WF_vars(PsbWalk)

\* the vertices at most h edges away from source
RECURSIVE WithinHops(_)
WithinHops(h) ==
  IF h = 0 THEN {source}
  ELSE LET near == WithinHops(h - 1)
       IN near \cup {e.target : e \in UNION {Range(Neighbors(u)) : u \in near}}

\* a vertex more than k hops away from source and reachable within maxHops
FarVertex == WithinHops(maxHops) \ WithinHops(k) # {}

\* a call of BMSSP, and with it of findPivots, has a source set with a
\* vertex other than source
BeyondSource ==
  \E d \in 1..Len(ps.stack) : \E v \in Range(ps.stack[d].S) : v # source

\* C30 (the frontier advances): when the graph has a vertex more than k hops
\* away from source that is reachable within maxHops, some call of BMSSP or
\* findPivots of the psbDijkstra run receives a source set S with a vertex
\* other than source.
C30_FrontierAdvances == (ppc = "idle" /\ FarVertex) => <>(ppc = "run" /\ BeyondSource)

====
